---- MODULE Spec2Model ----
(***************************************************************************)
(* Feed / thread state of BlueskyFeedProvider and its optimistic like and  *)
(* repost reconciliation (likePost, repostPost, fetchFeed, fetchThread,    *)
(* loadMore, fetchPostLikes, createPost, logout), the session and profile  *)
(* of BlueskyAuthProvider, and updateThreadNode and normalizePost.         *)
(*                                                                         *)
(* Encoding of JavaScript values:                                          *)
(*   undefined            -> Undefined (a reserved string)                 *)
(*   null (error strings) -> NoError   (a reserved string)                 *)
(*   null (objects)       -> NULL      (a record no node is equal to)      *)
(*   arrays               -> sequences                                     *)
(* A normalized item is the PostView of normalizePost; `$type` is the field *)
(* `type`. An optional field that is missing is absent from the record.    *)
(***************************************************************************)
EXTENDS Integers, Sequences, FiniteSets, TLC

\* ----------------------------------------------------------------- bounds
MaxCount == 1
MaxActions == 2
\* The largest number of nodes of a tree or list of trees handed to
\* updateThreadNode on its own.
MaxNodes == 3
\* The largest number of uploaded images handed to createEmbed.
MaxImages == 2
\* The largest number of posts in a search response handed to fetchFeedImpl on
\* its own.
MaxResults == 2

\* ----------------------------------------------------------- JS encodings
Undefined == "undefined"
NoError == "null"
NULL == [null |-> TRUE]
Pending == "pending"

Me == "did:me"
Other == "did:other"

Kinds == {"like", "repost"}
FlatMode == "timeline"
ThreadMode == "thread"
Modes == {FlatMode, ThreadMode}

\* The posts the remote service knows.
Uris == {"p", "a", "b", "c"}
CidOf(u) == "cid:" \o u
ThreadRootUri == "a"
\* The posts the user toggles: "a" is on the first timeline page and is the
\* focused post of the thread; "c" is on the second page and is a nested reply.
TargetUris == {"a", "c"}

Truthy(v) == v # Undefined /\ v # "" /\ v # NoError

\* ------------------------------------------------------------ sequences
RECURSIVE SeqFilter(_, _)
SeqFilter(s, keep) ==
    IF s = <<>> THEN <<>>
    ELSE IF keep[1] THEN <<Head(s)>> \o SeqFilter(Tail(s), Tail(keep))
         ELSE SeqFilter(Tail(s), Tail(keep))

\* Array.prototype.filter(Boolean) over nodes: drops null entries.
FilterBoolean(s) == SeqFilter(s, [i \in DOMAIN s |-> s[i] # NULL])

\* A sequence without its i-th element (a settled request leaves the in-flight list).
Without(seq, i) ==
    [k \in 1..(Len(seq) - 1) |-> IF k < i THEN seq[k] ELSE seq[k + 1]]

\* Mutant of Reverse: the order is kept.
Reverse_kept(s) == s

\* Array.prototype.reverse
Reverse(s) == [i \in 1..Len(s) |-> s[Len(s) + 1 - i]]

\* --------------------------------------------------- lib/UpdateThreadNode
(* The transforms the handlers hand to updateThreadNode / posts.map, as    *)
(* data: [fn, kind, isAlready, ref, likers, did].                          *)
CountField(kind) == IF kind = "like" THEN "likeCount" ELSE "repostCount"

\* Mutants of performUpdate: not applied; always the create arm; no floor at 0;
\* the count left alone on the delete arm.
performUpdate_skipped(f, prevItem) == prevItem
performUpdate_alwaysCreate(f, prevItem) ==
    [prevItem EXCEPT !.post[CountField(f.kind)] = @ + 1,
                     !.post.viewer[f.kind] = Pending]
performUpdate_noFloor(f, prevItem) ==
    [prevItem EXCEPT
       !.post[CountField(f.kind)] = IF f.isAlready THEN @ - 1 ELSE @ + 1,
       !.post.viewer[f.kind] = IF f.isAlready THEN Undefined ELSE Pending]
performUpdate_noDecrement(f, prevItem) ==
    [prevItem EXCEPT
       !.post[CountField(f.kind)] = IF f.isAlready THEN @ ELSE @ + 1,
       !.post.viewer[f.kind] = IF f.isAlready THEN Undefined ELSE Pending]

\* likePost.performUpdate / repostPost.performUpdate
performUpdate(f, prevItem) ==
    LET field == CountField(f.kind)
        currentCount == prevItem.post[field]
    IN [prevItem EXCEPT
          !.post[field] = IF f.isAlready
                             THEN (IF currentCount - 1 > 0 THEN currentCount - 1 ELSE 0)
                             ELSE currentCount + 1,
          !.post.viewer[f.kind] = IF f.isAlready THEN Undefined ELSE Pending]

\* likePost.removeSelf
removeSelf(f, node) ==
    [node EXCEPT
       !.likers = SeqFilter(node.likers,
                            [i \in DOMAIN node.likers |-> node.likers[i].did # f.did]),
       !.post.viewer.like = Undefined]

\* repostPost.clearRepost
clearRepost(f, node) == [node EXCEPT !.post.viewer.repost = Undefined]

\* Mutant of finalUpdate: written only over the optimistic marker, so that the
\* first response to land would win.
finalUpdate_firstWins(f, node) ==
    IF node.post.viewer.like = Pending
    THEN [node EXCEPT !.likers = f.likers, !.post.viewer.like = f.ref]
    ELSE node

\* likePost.finalUpdate
finalUpdate(f, node) ==
    [node EXCEPT !.likers = f.likers, !.post.viewer.like = f.ref]

\* repostPost.finalizeRepost
finalizeRepost(f, node) == [node EXCEPT !.post.viewer.repost = f.ref]

\* fetchPostLikes.updateWithLikers
updateWithLikers(f, node) == [node EXCEPT !.likers = f.likers]

ApplyFn(f, node) ==
    CASE f.fn = "performUpdate" -> performUpdate(f, node)
      [] f.fn = "updateWithLikers" -> updateWithLikers(f, node)
      [] f.fn = "removeSelf" -> removeSelf(f, node)
      [] f.fn = "clearRepost" -> clearRepost(f, node)
      [] f.fn = "finalUpdate" -> finalUpdate(f, node)
      [] f.fn = "finalizeRepost" -> finalizeRepost(f, node)

\* Mutants of updateThreadNode: the transform applied without the uri test; no
\* descent into the replies.
updateThreadNode_applyAll(nodes, targetUri, updateFn) ==
    IF nodes = NULL \/ nodes.post = NULL THEN nodes ELSE ApplyFn(updateFn, nodes)
updateThreadNode_shallow(nodes, targetUri, updateFn) ==
    IF nodes = NULL \/ nodes.post = NULL THEN nodes
    ELSE IF nodes.post.uri = targetUri THEN ApplyFn(updateFn, nodes)
    ELSE nodes

\* Mutant of updateThreadNode: a node that has replies is only descended into,
\* the uri test is made at the leaves.
RECURSIVE updateThreadNode_descendsFirst(_, _, _)
updateThreadNode_descendsFirst(nodes, targetUri, updateFn) ==
    IF nodes = NULL \/ nodes.post = NULL THEN nodes
    ELSE IF Len(nodes.replies) > 0
         THEN [nodes EXCEPT
                 !.replies = [i \in DOMAIN nodes.replies |->
                                updateThreadNode_descendsFirst(nodes.replies[i],
                                                               targetUri, updateFn)]]
    ELSE IF nodes.post.uri = targetUri THEN ApplyFn(updateFn, nodes)
    ELSE nodes

RECURSIVE updateThreadNode(_, _, _)
updateThreadNode(nodes, targetUri, updateFn) ==
    IF nodes = NULL \/ nodes.post = NULL THEN nodes
    ELSE IF nodes.post.uri = targetUri THEN ApplyFn(updateFn, nodes)
    ELSE IF Len(nodes.replies) > 0
         THEN [nodes EXCEPT
                 !.replies = [i \in DOMAIN nodes.replies |->
                                updateThreadNode(nodes.replies[i], targetUri, updateFn)]]
    ELSE nodes

\* updateThreadNode on an array: the Array.isArray branch.
updateThreadNodes(nodes, targetUri, updateFn) ==
    [i \in DOMAIN nodes |-> updateThreadNode(nodes[i], targetUri, updateFn)]

\* Mutant of mapReplace: the transform is applied to every item.
mapReplace_everyItem(list, uri, updateFn) ==
    [i \in DOMAIN list |-> ApplyFn(updateFn, list[i])]

\* posts.map(item => item.post.uri === uri ? fn(item) : item)
mapReplace(list, uri, updateFn) ==
    [i \in DOMAIN list |->
       IF list[i].post.uri = uri THEN ApplyFn(updateFn, list[i]) ELSE list[i]]

\* ------------------------------------------------------------- variables
VARIABLES
    props,            \* the component's props, destructured (see Props)
    agent,            \* useBluesky().agent: TRUE when a session exists, FALSE for null
    currentUser,      \* useBluesky().currentUser: NULL or [did]
    posts, loading, error, cursorRef, hasMore,
    threadAncestors, threadFocused, threadReplies, threadLoading, threadError,
    timer,            \* the pending setTimeout of the fetch trigger effect, or NULL
    toggles,          \* likePost / repostPost invocations suspended at an await
    feedReqs,         \* fetchFeed invocations suspended at `await fetchFeedImpl`
    threadReqs,       \* fetchThreadImpl invocations suspended at `await agent.getPostThread`
    srv,              \* the remote service: per post its counts and the viewer's records
    nextRef,          \* number of records the remote service has created
    awaited,          \* other awaited calls in flight: getProfile of the session,
                      \* signOut of logout, getLikes of fetchPostLikes, compressImage,
                      \* uploadBlob and post of createPost, resolveHandle of resolveFeedUri
    budget,           \* how many more user actions (toggle, loadMore, props change) are explored
    lastCall,         \* what the last step was (handler step, fetch, props change), or NoCall
    trip,             \* progress of the like round trip being followed
    mounted           \* FALSE once an error thrown while rendering has unmounted the tree

view == <<posts, loading, error, cursorRef, hasMore,
          threadAncestors, threadFocused, threadReplies, threadLoading, threadError>>
inflight == <<timer, toggles, feedReqs, threadReqs>>
env == <<props, agent, currentUser, srv, nextRef>>
vars == <<props, agent, currentUser, posts, loading, error, cursorRef, hasMore,
          threadAncestors, threadFocused, threadReplies, threadLoading, threadError,
          timer, toggles, feedReqs, threadReqs, srv, nextRef, awaited, budget, lastCall,
          trip, mounted>>

\* What the last step was: its name, and for the steps of likePost / repostPost
\* the kind, uri and argument; `props` are the props the step ran with.
NoCall == [op |-> "", kind |-> "", uri |-> "", arg |-> "",
           props |-> [mode |-> "", threadUri |-> ""], stage |-> ""]
Call(op, kind, uri, arg, q, stage) ==
    [op |-> op, kind |-> kind, uri |-> uri, arg |-> arg, props |-> q, stage |-> stage]
NoTrip == [stage |-> 0, uri |-> "", n |-> 0]

\* ------------------------------------------------------ the remote service
Ref(n) == "at://rec/" \o ToString(n)

ServerPost(s, u) ==
    [uri |-> u, cid |-> CidOf(u),
     likeCount |-> s[u].likeCount, repostCount |-> s[u].repostCount,
     viewer |-> [like |-> s[u].like, repost |-> s[u].repost]]

\* The pages of the timeline, in server order; the cursor of page i names page i+1.
ServerPages == << <<"a">>, <<"c">> >>
CursorOf(pages, i) == IF i < Len(pages) THEN "cursor:" \o ToString(i + 1) ELSE Undefined
\* The page a cursor names; 0 when the source has no such page.
PageIndex(pages, cursor) ==
    IF cursor = Undefined THEN (IF Len(pages) > 0 THEN 1 ELSE 0)
    ELSE IF \E i \in 1..Len(pages) : cursor = "cursor:" \o ToString(i)
         THEN CHOOSE i \in 1..Len(pages) : cursor = "cursor:" \o ToString(i)
         ELSE 0

\* A page entry of a source that stands for a raw item whose post has no uri.
NoUriEntry == ""
FeedViewPost(s, u) ==
    [post |-> IF u = NoUriEntry THEN [ServerPost(s, "p") EXCEPT !.uri = Undefined]
              ELSE ServerPost(s, u)]

\* One page of a paged source: the `data` of the response.
PageOf(s, pages, cursor) ==
    LET i == PageIndex(pages, cursor)
    IN IF i = 0 THEN [feed |-> <<>>, cursor |-> Undefined]
       ELSE [feed |-> [k \in DOMAIN pages[i] |-> FeedViewPost(s, pages[i][k])],
             cursor |-> CursorOf(pages, i)]

\* agent.getTimeline({limit, cursor}).data
GetTimeline(s, cursor) == PageOf(s, ServerPages, cursor)

\* The other sources of the service.
Alice == "alice.test"
AliceDid == "did:plc:alice"
Bob == "bob.test"
Cats == "cats"
DISCOVER_FEED_URI == "at://did:plc:z72i7hdynmk6r22z27h6tvur/app.bsky.feed.generator/whats-hot"
HotFeedUri == "at://did:plc:alice/app.bsky.feed.generator/hot"
HotFeedUrl == "https://bsky.app/profile/alice.test/feed/hot"
JunkFeedUrl == "junk"

AuthorPages(actor) ==
    CASE actor = Alice -> << <<"p", "a">>, <<"b">>, <<"c">> >>
      [] actor = Bob -> << <<"a", NoUriEntry, "c">> >>
      [] OTHER -> <<>>
SearchPages(q) == IF q = Cats THEN << <<"b">>, <<"c">> >> ELSE <<>>
FeedPages(feed) ==
    CASE feed = DISCOVER_FEED_URI -> << <<"p">>, <<"b">> >>
      [] feed = HotFeedUri -> << <<"c", "b">> >>
      [] OTHER -> <<>>

\* agent.getAuthorFeed({actor, limit, filter, cursor}).data
GetAuthorFeed(s, actor, cursor) == PageOf(s, AuthorPages(actor), cursor)
\* agent.app.bsky.feed.getFeed({feed, limit, cursor}).data
GetFeed(s, feed, cursor) == PageOf(s, FeedPages(feed), cursor)
\* agent.app.bsky.feed.searchPosts({q, limit, cursor}).data: posts, not feed items
SearchPosts(s, q, cursor) ==
    LET page == PageOf(s, SearchPages(q), cursor)
    IN [posts |-> [k \in DOMAIN page.feed |-> page.feed[k].post], cursor |-> page.cursor]
\* agent.resolveHandle({handle}).data.did, or Undefined for a handle nobody has
ResolveHandle(handle) == IF handle = Alice THEN AliceDid ELSE Undefined

\* A thread view node with a post, and one without (notFoundPost / blockedPost:
\* no `post` field, the uri on the node itself).
RawThreadNode(s, u, parent, replies) ==
    [post |-> ServerPost(s, u), parent |-> parent, replies |-> replies]
NotFoundNode(u, parent) ==
    [post |-> NULL, uri |-> u, notFound |-> TRUE, parent |-> parent, replies |-> <<>>]

\* The thread URIs the service answers besides ThreadRootUri.
DeepThreadUri == "b"
GoneThreadUri == "gone"
NoUriThreadUri == "nouri"
NoUriParentThreadUri == "nouriparent"
ThreadUris ==
    {ThreadRootUri, DeepThreadUri, GoneThreadUri, NoUriThreadUri, NoUriParentThreadUri}

\* A thread view node whose post carries no uri.
NoUriNode(s, parent, replies) ==
    [post |-> [ServerPost(s, "p") EXCEPT !.uri = Undefined],
     parent |-> parent, replies |-> replies]

\* agent.getPostThread({uri}).data.thread:
\*   "a"     p <- a (root) <- b <- c
\*   "b"     p <- (not found) <- a <- (not found) <- b (root), with a reply
\*           that is not found and a reply c
\*   "gone"  the root is a notFoundPost
\*   "nouri" the root carries a post without a uri
\*   "nouriparent"  a <- (post without uri) <- c (root), with a reply whose
\*           post has no uri and a reply b that has such a reply itself
GetPostThread(s, uri) ==
    CASE uri = DeepThreadUri ->
           RawThreadNode(s, "b",
               NotFoundNode("x1",
                   RawThreadNode(s, "a",
                       NotFoundNode("x2", RawThreadNode(s, "p", NULL, <<>>)),
                       <<>>)),
               << NotFoundNode("x3", NULL), RawThreadNode(s, "c", NULL, <<>>) >>)
      [] uri = GoneThreadUri -> NotFoundNode(GoneThreadUri, NULL)
      [] uri = NoUriThreadUri ->
           NoUriNode(s, RawThreadNode(s, "a", NULL, <<>>),
                     << RawThreadNode(s, "b", NULL, <<>>) >>)
      [] uri = NoUriParentThreadUri ->
           RawThreadNode(s, "c",
               NoUriNode(s, RawThreadNode(s, "a", NULL, <<>>), <<>>),
               << NoUriNode(s, NULL, << RawThreadNode(s, "p", NULL, <<>>) >>),
                  RawThreadNode(s, "b", NULL, << NoUriNode(s, NULL, <<>>) >>) >>)
      [] OTHER ->
           RawThreadNode(s, ThreadRootUri,
               RawThreadNode(s, "p", NULL, <<>>),
               << RawThreadNode(s, "b", NULL,
                     << RawThreadNode(s, "c", NULL, <<>>) >>) >>)

\* agent.getLikes({uri, limit}).data.likes.map(l => l.actor)
GetLikes(s, uri) ==
    (IF s[uri].like # Undefined THEN <<[did |-> Me]>> ELSE <<>>) \o <<[did |-> Other]>>

Dec(n) == IF n > 0 THEN n - 1 ELSE 0

\* agent.like / agent.repost on the service: a new record, returned as res.uri
SrvCreate(s, kind, uri, ref) ==
    [s EXCEPT ![uri][kind] = ref,
              ![uri][CountField(kind)] = IF s[uri][kind] = Undefined THEN @ + 1 ELSE @]

\* agent.deleteLike / agent.deleteRepost on the service
SrvDelete(s, kind, uri, ref) ==
    IF s[uri][kind] = ref
    THEN [s EXCEPT ![uri][kind] = Undefined, ![uri][CountField(kind)] = Dec(@)]
    ELSE s

\* ------------------------------------------------------ lib/NormalizeUtils
\* `obj?.field` for a field that holds an object, an array or a string: the
\* value, or `absent` when obj is null or has no such field.
GetOr(obj, field, absent) == IF field \in DOMAIN obj THEN obj[field] ELSE absent

\* The outcome of a call that throws (a TypeError on a property of undefined).
Thrown == [thrown |-> TRUE]
\* null where the code yields a time string or null
NoTime == "null"

\* The $type tags of the embed views and of the repost reason (field `type`).
RecordView == "app.bsky.embed.record#view"
RecordWithMediaView == "app.bsky.embed.recordWithMedia#view"
ImagesView == "app.bsky.embed.images#view"
VideoView == "app.bsky.embed.video#view"
ExternalView == "app.bsky.embed.external#view"
ReasonRepost == "app.bsky.feed.defs#reasonRepost"

\* flattenEmbed: the quoted record view of an embed, or null. `embed.record.record`
\* throws when a recordWithMedia view has no record.
flattenEmbed(embed) ==
    IF embed = NULL THEN NULL
    ELSE LET outer == GetOr(embed, "record", NULL)
         IN IF GetOr(embed, "type", Undefined) = RecordWithMediaView /\ outer = NULL
            THEN Thrown
            ELSE LET record == IF GetOr(embed, "type", Undefined) = RecordWithMediaView
                               THEN GetOr(outer, "record", NULL) ELSE outer
                 IN IF record = NULL THEN NULL
                    ELSE IF GetOr(record, "author", NULL) # NULL THEN record
                    ELSE IF GetOr(GetOr(record, "record", NULL), "author", NULL) # NULL
                         THEN record.record
                    ELSE NULL

\* getDisplayImages
getDisplayImages(embed) ==
    IF embed = NULL THEN <<>>
    ELSE IF "images" \in DOMAIN embed THEN embed.images
    ELSE IF "images" \in DOMAIN GetOr(embed, "media", NULL) THEN embed.media.images
    ELSE IF Truthy(GetOr(GetOr(embed, "external", NULL), "thumb", Undefined))
         THEN <<[fullsize |-> embed.external.thumb, thumb |-> embed.external.thumb,
                 alt |-> GetOr(embed.external, "title", Undefined)]>>
    ELSE <<>>

\* getDisplayVideo
VideoOf(v) ==
    [playlist |-> GetOr(v, "playlist", Undefined),
     thumbnail |-> GetOr(v, "thumbnail", Undefined),
     alt |-> GetOr(v, "alt", Undefined), cid |-> GetOr(v, "cid", Undefined)]
getDisplayVideo(embed) ==
    IF embed = NULL THEN NULL
    ELSE IF GetOr(embed, "type", Undefined) = VideoView THEN VideoOf(embed)
    ELSE IF /\ GetOr(embed, "type", Undefined) = RecordWithMediaView
            /\ GetOr(GetOr(embed, "media", NULL), "type", Undefined) = VideoView
         THEN VideoOf(embed.media)
    ELSE NULL

\* normalizePost: the PostView of a raw node, null when the node has no post
\* with a uri; Thrown when flattenEmbed throws, here or in a parent or a reply.
\* `node.reason.by` and `embed.external` are plain property reads: a repost
\* reason without `by`, or an external view without `external`, gives undefined.
RECURSIVE normalizePost(_)
normalizePost(node) ==
    LET post == IF GetOr(node, "post", NULL) # NULL THEN node.post ELSE node
    IN IF ~Truthy(GetOr(post, "uri", Undefined)) THEN NULL
       ELSE
       LET embed == GetOr(post, "embed", NULL)
           reason == GetOr(node, "reason", NULL)
           isRepost == GetOr(reason, "type", Undefined) = ReasonRepost
           record == GetOr(post, "record", NULL)
           quote == flattenEmbed(embed)
           replyParent == GetOr(GetOr(node, "reply", NULL), "parent", NULL)
           parent == IF replyParent # NULL THEN normalizePost(replyParent) ELSE NULL
           raw == GetOr(node, "replies", <<>>)
           replies == [i \in DOMAIN raw |-> normalizePost(raw[i])]
       IN IF quote = Thrown \/ parent = Thrown
             \/ \E i \in DOMAIN replies : replies[i] = Thrown
          THEN Thrown
          ELSE [post |-> post,
                repostedBy |-> IF isRepost THEN GetOr(reason, "by", Undefined) ELSE NULL,
                repostTime |-> IF isRepost THEN GetOr(reason, "indexedAt", Undefined)
                               ELSE NoTime,
                replyTime |-> IF GetOr(record, "reply", NULL) # NULL
                              THEN GetOr(record, "createdAt", Undefined) ELSE NoTime,
                quoteTime |-> IF quote # NULL
                              THEN GetOr(record, "createdAt", Undefined) ELSE NoTime,
                parent |-> parent,
                quote |-> quote,
                displayImages |-> getDisplayImages(embed),
                displayVideo |-> getDisplayVideo(embed),
                externalLink |-> IF GetOr(embed, "type", Undefined) = ExternalView
                                 THEN GetOr(embed, "external", Undefined) ELSE NULL,
                replies |-> FilterBoolean(replies),
                likers |-> <<>>]

\* --------------------------------------------------- lib/uriEmbed createEmbed
\* undefined where the code returns an embed object or undefined
NoEmbed == [undefined |-> TRUE]

\* The quote embed of createEmbed.
QuoteEmbed(quoteUri, quoteCid) ==
    [type |-> "app.bsky.embed.record", record |-> [uri |-> quoteUri, cid |-> quoteCid]]

\* Mutant of createEmbed: a quote uri alone is enough for the quote embed.
createEmbed_uriOnly(uploadedImages, quoteUri, quoteCid) ==
    LET imageEmbed ==
          IF Len(uploadedImages) > 0
          THEN [type |-> "app.bsky.embed.images",
                images |-> [i \in DOMAIN uploadedImages |->
                              [image |-> uploadedImages[i].blob,
                               alt |-> IF Truthy(GetOr(uploadedImages[i], "alt", Undefined))
                                       THEN uploadedImages[i].alt ELSE ""]]]
          ELSE NULL
        quoteEmbed == IF Truthy(quoteUri) THEN QuoteEmbed(quoteUri, quoteCid) ELSE NULL
    IN IF imageEmbed # NULL /\ quoteEmbed # NULL
       THEN [type |-> "app.bsky.embed.recordWithMedia", media |-> imageEmbed,
             record |-> quoteEmbed]
       ELSE IF imageEmbed # NULL THEN imageEmbed
       ELSE IF quoteEmbed # NULL THEN quoteEmbed
       ELSE NoEmbed

\* createEmbed(uploadedImages, quoteUri, quoteCid)
createEmbed(uploadedImages, quoteUri, quoteCid) ==
    LET imageEmbed ==
          IF Len(uploadedImages) > 0
          THEN [type |-> "app.bsky.embed.images",
                images |-> [i \in DOMAIN uploadedImages |->
                              [image |-> uploadedImages[i].blob,
                               alt |-> IF Truthy(GetOr(uploadedImages[i], "alt", Undefined))
                                       THEN uploadedImages[i].alt ELSE ""]]]
          ELSE NULL
        quoteEmbed == IF Truthy(quoteUri) /\ Truthy(quoteCid)
                      THEN QuoteEmbed(quoteUri, quoteCid) ELSE NULL
    IN IF imageEmbed # NULL /\ quoteEmbed # NULL
       THEN [type |-> "app.bsky.embed.recordWithMedia", media |-> imageEmbed,
             record |-> quoteEmbed]
       ELSE IF imageEmbed # NULL THEN imageEmbed
       ELSE IF quoteEmbed # NULL THEN quoteEmbed
       ELSE NoEmbed

\* ------------------------------------------------ lib/uriEmbed resolveFeedUri
\* null where the code returns a string or null
NoResult == "null"

StartsWith(str, prefix) ==
    Len(str) >= Len(prefix) /\ SubSeq(str, 1, Len(prefix)) = prefix
HasAt(str, i, lit) ==
    i + Len(lit) - 1 <= Len(str) /\ SubSeq(str, i, i + Len(lit) - 1) = lit
\* [^/]+ from position i: the index just past the longest run without "/"
RECURSIVE RunEnd(_, _)
RunEnd(str, i) ==
    IF i > Len(str) \/ SubSeq(str, i, i) = "/" THEN i ELSE RunEnd(str, i + 1)

\* url.match(/profile\/([^/]+)\/feed\/([^/]+)/) tried at position i
MatchAt(url, i) ==
    LET idStart == i + Len("profile/")
        idEnd == RunEnd(url, idStart)
        feedStart == idEnd + Len("/feed/")
        feedEnd == RunEnd(url, feedStart)
    IN IF /\ HasAt(url, i, "profile/")
          /\ idEnd > idStart
          /\ HasAt(url, idEnd, "/feed/")
          /\ feedEnd > feedStart
       THEN [identifier |-> SubSeq(url, idStart, idEnd - 1),
             feedId |-> SubSeq(url, feedStart, feedEnd - 1)]
       ELSE NULL
\* the leftmost match, or NULL
Match(url) ==
    LET hits == {i \in 1..Len(url) : MatchAt(url, i) # NULL}
    IN IF hits = {} THEN NULL
       ELSE MatchAt(url, CHOOSE i \in hits : \A j \in hits : i <= j)

GeneratorUri(did, feedId) == "at://" \o did \o "/app.bsky.feed.generator/" \o feedId

\* Mutant of ResolveStart: a did in the URL is resolved like a handle.
ResolveStart_noDidCheck(ag, url) ==
    LET match == Match(url) IN
    IF ~Truthy(url) THEN [do |-> "return", uri |-> NoResult]
    ELSE IF StartsWith(url, "at://") THEN [do |-> "return", uri |-> url]
    ELSE IF match = NULL THEN [do |-> "return", uri |-> NoResult]
    ELSE IF ~ag THEN [do |-> "return", uri |-> NoResult]
    ELSE [do |-> "resolveHandle", handle |-> match.identifier, feedId |-> match.feedId]

\* resolveFeedUri up to its await: the value it returns without a remote call,
\* or the handle it asks agent.resolveHandle for. With a null agent the call
\* throws inside the try and the function returns null.
ResolveStart(ag, url) ==
    LET match == Match(url) IN
    IF ~Truthy(url) THEN [do |-> "return", uri |-> NoResult]
    ELSE IF StartsWith(url, "at://") THEN [do |-> "return", uri |-> url]
    ELSE IF match = NULL THEN [do |-> "return", uri |-> NoResult]
    ELSE IF StartsWith(match.identifier, "did:")
         THEN [do |-> "return", uri |-> GeneratorUri(match.identifier, match.feedId)]
    ELSE IF ~ag THEN [do |-> "return", uri |-> NoResult]
    ELSE [do |-> "resolveHandle", handle |-> match.identifier, feedId |-> match.feedId]

\* resolveFeedUri as a whole, `answer` being what agent.resolveHandle gives when
\* it is asked (a did, or Undefined when it rejects): the result and the number
\* of remote calls made.
resolveFeedUri(ag, url, answer) ==
    LET start == ResolveStart(ag, url) IN
    IF start.do = "return" THEN [uri |-> start.uri, calls |-> 0]
    ELSE IF answer = Undefined THEN [uri |-> NoResult, calls |-> 1]
    ELSE [uri |-> GeneratorUri(answer, start.feedId), calls |-> 1]

\* ----------------------------------------------------------------- Init
\* The props as the component destructures them: `limit = 20` when not given.
DefaultLimit == 20
Props(mode, actor, feedUrl, searchQuery, threadUri) ==
    [mode |-> mode, actor |-> actor, feedUrl |-> feedUrl,
     searchQuery |-> searchQuery, threadUri |-> threadUri, limit |-> DefaultLimit]
WithLimit(q, n) == [q EXCEPT !.limit = n]
PropSet == {Props(FlatMode, Undefined, Undefined, Undefined, Undefined),
            Props(ThreadMode, Undefined, Undefined, Undefined, Undefined),
            Props(ThreadMode, Undefined, Undefined, Undefined, ThreadRootUri)}
NoSessionError == "agent is null"

\* What an awaited call rejects with, as its `message`: a request that fails
\* rejects with an Error that has a message (possibly the empty string); a value
\* without a message (undefined, a plain object) has message Undefined.
Rejections == {Undefined, "boom", ""}
\* `e?.message ?? fallback`
MessageOr(err, fallback) == IF err \in {Undefined, NoError} THEN fallback ELSE err

\* The viewer's initial records and the counts, as the service reports them.
SrvInit(c, l, r) ==
    [u \in Uris |->
       [likeCount |-> c, repostCount |-> c,
        like |-> IF l THEN Ref(0) ELSE Undefined,
        repost |-> IF r THEN Ref(0) ELSE Undefined]]

\* The service with posts in different conditions: "a" carries the viewer's
\* like and repost, with a like count that is stale (0) and a repost count that
\* includes the repost (MaxCount); the other posts carry none, with a like count
\* of MaxCount and a repost count of 0.
SrvMixed ==
    [u \in Uris |->
       IF u = "a"
       THEN [likeCount |-> 0, repostCount |-> MaxCount,
             like |-> Ref(0), repost |-> Ref(0)]
       ELSE [likeCount |-> MaxCount, repostCount |-> 0,
             like |-> Undefined, repost |-> Undefined]]

\* useState initial values, then the mount run of the effects: no session yet.
Init ==
    /\ props \in PropSet
    /\ agent = FALSE
    /\ currentUser = NULL
    /\ posts = <<>> /\ loading = FALSE /\ error = NoError
    /\ cursorRef = Undefined /\ hasMore = TRUE
    /\ threadAncestors = <<>> /\ threadFocused = NULL /\ threadReplies = <<>>
    /\ threadLoading = FALSE
    /\ threadError = IF props.mode = ThreadMode /\ Truthy(props.threadUri)
                     THEN NoSessionError ELSE NoError
    /\ timer = IF props.mode = ThreadMode THEN NULL
               ELSE [props |-> props, agent |-> FALSE]
    /\ toggles = <<>> /\ feedReqs = <<>> /\ threadReqs = <<>>
    /\ srv = SrvMixed
    /\ nextRef = 1
    /\ awaited = <<>>
    /\ budget = MaxActions
    /\ lastCall = NoCall
    /\ trip = NoTrip
    /\ mounted = TRUE

\* --------------------------------------------------- the render that throws
\* An error thrown while rendering (a state updater that throws) unmounts the
\* whole tree, the providers included: no error boundary is above them. The
\* cleanups of the effects run (the pending timeout is cleared), the imperative
\* handle is detached and no props arrive any more, so no function of the
\* handle, no effect and no timeout runs from then on. The continuations of the
\* calls in flight still run when their call settles: they still issue remote
\* calls and write refs, while every state setter they call is a no-op.
\* `setX(v)` of a useState: the state becomes v, or stays when unmounted.
SetState(cur, v) == IF mounted THEN v ELSE cur

\* ------------------------------------------------- fetchThreadImpl, start
\* lib/BlueskyAuthProvider.tsx fetchThreadImpl up to `await agent.getPostThread`.
\* With a null agent the call throws inside the try: catch and finally run at once.
StartFetchThread(q, ag) ==
    IF ~Truthy(q.threadUri)
    THEN UNCHANGED <<threadLoading, threadError, threadReqs>>
    ELSE IF ~ag
    THEN /\ threadLoading' = SetState(threadLoading, FALSE)
         /\ threadError' = SetState(threadError, NoSessionError)
         /\ UNCHANGED threadReqs
    ELSE /\ threadLoading' = SetState(threadLoading, TRUE)
         /\ threadError' = SetState(threadError, NoError)
         /\ threadReqs' = Append(threadReqs, [uri |-> q.threadUri])

\* fetchFeedImpl of lib/Feed.ts, the switch up to its first await: resolve at
\* once with nothing fetched ("done"), throw on the null agent ("throw"), or
\* issue a remote call.
RemoteCall(ag, call, key, feedId) ==
    IF ag THEN [do |-> "call", call |-> call, key |-> key, feedId |-> feedId]
    ELSE [do |-> "throw"]
\* `feedUrl || DISCOVER_FEED_URI`
RawFeedUrl(q) == IF Truthy(q.feedUrl) THEN q.feedUrl ELSE DISCOVER_FEED_URI

\* Mutant of FirstCall: the author feed is asked for whatever the mode's input is.
FirstCall_noPrecondition(q, ag) == RemoteCall(ag, "getAuthorFeed", q.actor, Undefined)

FirstCall(q, ag) ==
    CASE q.mode = "timeline" ->
           IF ag THEN RemoteCall(ag, "getTimeline", Undefined, Undefined)
           ELSE [do |-> "done"]
      [] q.mode = "search" ->
           IF Truthy(q.searchQuery)
           THEN RemoteCall(ag, "searchPosts", q.searchQuery, Undefined)
           ELSE [do |-> "done"]
      [] q.mode = "feed" ->
           LET rawUrl == RawFeedUrl(q)
               start == ResolveStart(ag, rawUrl)
           IN IF start.do = "resolveHandle"
              THEN RemoteCall(ag, "resolveHandle", start.handle, start.feedId)
              ELSE IF Truthy(start.uri)
                   THEN RemoteCall(ag, "getFeed", start.uri, Undefined)
                   ELSE [do |-> "done"]
      [] OTHER ->
           IF Truthy(q.actor)
           THEN RemoteCall(ag, "getAuthorFeed", q.actor, Undefined)
           ELSE [do |-> "done"]

\* `searchRes.data.posts.map((post) => ({ post }))`
WrapSearch(found) == [k \in DOMAIN found |-> [post |-> found[k]]]

\* The `data` and `nextCursor` fetchFeedImpl takes from the response of `req`.
Upstream(s, req) ==
    CASE req.call = "getTimeline" -> GetTimeline(s, req.cursor)
      [] req.call = "getAuthorFeed" -> GetAuthorFeed(s, req.key, req.cursor)
      [] req.call = "getFeed" -> GetFeed(s, req.key, req.cursor)
      [] req.call = "searchPosts" ->
           LET res == SearchPosts(s, req.key, req.cursor)
           IN [feed |-> WrapSearch(res.posts), cursor |-> res.cursor]

\* Mutant of fetchFeedImpl: the upstream cursor is not handed on.
fetchFeedImpl_cursorLost(data) ==
    [posts |-> [i \in DOMAIN data.feed |-> normalizePost(data.feed[i])],
     cursor |-> Undefined]

\* fetchFeedImpl, its return statement for the upstream page `data`.
fetchFeedImpl(data) ==
    [posts |-> [i \in DOMAIN data.feed |-> normalizePost(data.feed[i])],
     cursor |-> data.cursor]

\* Mutant of FeedLanded: hasMore stays true.
FeedLanded_hasMoreStays(loadMore, result) ==
    /\ posts' = SetState(posts, IF loadMore THEN posts \o result.posts ELSE result.posts)
    /\ cursorRef' = result.cursor
    /\ hasMore' = SetState(hasMore, TRUE)
    /\ loading' = SetState(loading, FALSE)

\* fetchFeed, the statements after `await fetchFeedImpl` on success: setPosts,
\* `cursorRef.current = result.cursor` (a ref, written whether mounted or not),
\* setHasMore, and setLoading(false) of the finally block.
FeedLanded(loadMore, result) ==
    /\ posts' = SetState(posts, IF loadMore THEN posts \o result.posts ELSE result.posts)
    /\ cursorRef' = result.cursor
    /\ hasMore' = SetState(hasMore, Truthy(result.cursor))
    /\ loading' = SetState(loading, FALSE)

\* fetchFeed up to the first remote call of `await fetchFeedImpl`. When
\* fetchFeedImpl issues no call it resolves with an empty page; when it throws
\* on the null agent, catch and finally run.
StartFetchFeed(q, ag, loadMore) ==
    LET first == FirstCall(q, ag) IN
    IF q.mode = ThreadMode
    THEN /\ StartFetchThread(q, ag)
         /\ UNCHANGED <<posts, loading, error, cursorRef, hasMore, feedReqs>>
    ELSE IF first.do = "done"
    THEN /\ FeedLanded(loadMore, [posts |-> <<>>, cursor |-> Undefined])
         /\ error' = SetState(error, NoError)
         /\ UNCHANGED <<feedReqs, threadLoading, threadError, threadReqs>>
    ELSE IF first.do = "throw"
    THEN /\ loading' = SetState(loading, FALSE)
         /\ error' = SetState(error, NoSessionError)
         /\ UNCHANGED <<posts, cursorRef, hasMore, feedReqs,
                        threadLoading, threadError, threadReqs>>
    ELSE /\ loading' = SetState(loading, TRUE)
         /\ error' = SetState(error, NoError)
         /\ feedReqs' = Append(feedReqs,
                [loadMore |-> loadMore, limit |-> q.limit,
                 cursor |-> IF loadMore THEN cursorRef ELSE Undefined,
                 call |-> first.call, key |-> first.key, feedId |-> first.feedId])
         /\ UNCHANGED <<posts, cursorRef, hasMore, threadLoading, threadError, threadReqs>>

\* ------------------------------------------------------- effects on props
\* "Trigger fetch on prop changes": the cleanup of the previous run clears its
\* timeout, then the body runs with the props, agent and loading of this render.
RunTriggerEffect(q, ag) ==
    IF loading
    THEN /\ timer' = NULL
         /\ UNCHANGED <<threadLoading, threadError, threadReqs>>
    ELSE IF q.mode = ThreadMode
    THEN /\ timer' = NULL
         /\ StartFetchThread(q, ag)
    ELSE /\ timer' = [props |-> q, agent |-> ag]
         /\ UNCHANGED <<threadLoading, threadError, threadReqs>>

\* The dependencies of "Reset pagination when key props change".
PaginationKey(q) == <<q.mode, q.actor, q.feedUrl, q.searchQuery>>

\* The props change: "Reset pagination when key props change", then the trigger.
SetProps(q) ==
    /\ mounted
    /\ UNCHANGED mounted
    /\ budget > 0
    /\ q # props
    /\ budget' = budget - 1
    /\ props' = q
    /\ IF PaginationKey(q) # PaginationKey(props)
       THEN cursorRef' = Undefined /\ hasMore' = TRUE
       ELSE UNCHANGED <<cursorRef, hasMore>>
    /\ RunTriggerEffect(q, agent)
    /\ lastCall' = Call("setProps", "", "", "", q, "")
    /\ trip' = NoTrip
    /\ UNCHANGED <<agent, currentUser, posts, loading, error,
                   threadAncestors, threadFocused, threadReplies,
                   toggles, feedReqs, srv, nextRef, awaited>>

\* One of the other awaited calls, as it waits: the call, the post it is about
\* and the props of the render its handler was created in (NoCall.props where
\* the continuation reads none of them); for the calls of createPost, the images
\* its loop has not finished, the length of uploadedBlobs and its text argument.
Awaited(call, uri, q) ==
    [call |-> call, uri |-> uri, props |-> q, left |-> <<>>, uploaded |-> 0,
     text |-> ""]

\* useOAuth restores or creates the session: agent and isLoggedIn change, and
\* the trigger effect (isLoggedIn is one of its dependencies) runs again.
\* The effect of BlueskyAuthProvider starts `await agent.getProfile` for the
\* viewer's profile; currentUser stays null until it is answered.
SignIn ==
    /\ mounted
    /\ UNCHANGED mounted
    /\ ~agent
    /\ agent' = TRUE
    /\ awaited' = Append(awaited, Awaited("getProfile", "", NoCall.props))
    /\ RunTriggerEffect(props, TRUE)
    /\ lastCall' = Call("signIn", "", "", "", props, "")
    /\ UNCHANGED trip
    /\ UNCHANGED <<props, currentUser, posts, loading, error, cursorRef, hasMore,
                   threadAncestors, threadFocused, threadReplies,
                   toggles, feedReqs, srv, nextRef, budget>>

\* Mutant of ProfileOk: the profile is dropped.
ProfileOk_dropped(i) ==
    /\ UNCHANGED mounted
    /\ i \in DOMAIN awaited
    /\ awaited[i].call = "getProfile"
    /\ awaited' = Without(awaited, i)
    /\ lastCall' = Call("profileOk", "", "", "", props, "")
    /\ UNCHANGED trip
    /\ UNCHANGED <<props, agent, currentUser, view, timer, toggles, feedReqs, threadReqs,
                   srv, nextRef, budget>>

\* BlueskyAuthProvider: `await agent.getProfile({actor: session.did})` resolves:
\* setCurrentUser(profile.data), setHasFetchedUser(true). When the session is
\* gone by then, the effect runs again on hasFetchedUser and, finding no session,
\* sets currentUser back to null.
ProfileOk(i) ==
    /\ UNCHANGED mounted
    /\ i \in DOMAIN awaited
    /\ awaited[i].call = "getProfile"
    /\ currentUser' = SetState(currentUser, IF agent THEN [did |-> Me] ELSE NULL)
    /\ awaited' = Without(awaited, i)
    /\ lastCall' = Call("profileOk", "", "", "", props, "")
    /\ UNCHANGED trip
    /\ UNCHANGED <<props, agent, view, timer, toggles, feedReqs, threadReqs,
                   srv, nextRef, budget>>

\* setTimeout(() => fetchFeed(), delay) fires
TimerFire ==
    /\ mounted
    /\ UNCHANGED mounted
    /\ timer # NULL
    /\ timer' = NULL
    /\ StartFetchFeed(timer.props, timer.agent, FALSE)
    /\ lastCall' = Call("fetchFeed", "", "", "", timer.props, "")
    /\ UNCHANGED trip
    /\ UNCHANGED <<props, agent, currentUser, threadAncestors, threadFocused,
                   threadReplies, toggles, srv, nextRef, awaited, budget>>

\* loadMore of the imperative handle
LoadMore ==
    /\ mounted
    /\ UNCHANGED mounted
    /\ budget > 0
    /\ budget' = budget - 1
    /\ lastCall' = Call("loadMore", "", "",
                        IF ~hasMore \/ loading THEN "skipped" ELSE "fetch", props, "")
    /\ UNCHANGED trip
    /\ IF ~hasMore \/ loading
       THEN UNCHANGED <<view, feedReqs, threadReqs>>
       ELSE /\ StartFetchFeed(props, agent, TRUE)
            /\ UNCHANGED <<threadAncestors, threadFocused, threadReplies>>
    /\ UNCHANGED <<props, agent, currentUser, timer, toggles, srv, nextRef, awaited>>

\* ------------------------------------------------------ fetch responses
\* fetchFeed: `await fetchFeedImpl` resolves
FeedOk(i) ==
    /\ UNCHANGED mounted
    /\ i \in DOMAIN feedReqs
    /\ feedReqs[i].call # "resolveHandle"
    /\ FeedLanded(feedReqs[i].loadMore, fetchFeedImpl(Upstream(srv, feedReqs[i])))
    /\ feedReqs' = Without(feedReqs, i)
    /\ lastCall' = Call("feedOk", "", "", feedReqs[i], props, "")
    /\ trip' = NoTrip
    /\ UNCHANGED <<props, agent, currentUser, error,
                   threadAncestors, threadFocused, threadReplies, threadLoading,
                   threadError, timer, toggles, threadReqs, srv, nextRef, awaited, budget>>

\* Mutant of FeedFail: the failure also empties the list and ends the stream.
FeedFail_clears(i, err) ==
    /\ UNCHANGED mounted
    /\ i \in DOMAIN feedReqs
    /\ feedReqs[i].call # "resolveHandle"
    /\ error' = SetState(error, MessageOr(err, "Error fetching feed"))
    /\ loading' = SetState(loading, FALSE)
    /\ posts' = <<>> /\ cursorRef' = Undefined /\ hasMore' = FALSE
    /\ feedReqs' = Without(feedReqs, i)
    /\ lastCall' = Call("feedFail", "", "", feedReqs[i], props, "")
    /\ UNCHANGED trip
    /\ UNCHANGED <<props, agent, currentUser,
                   threadAncestors, threadFocused, threadReplies, threadLoading,
                   threadError, timer, toggles, threadReqs, srv, nextRef, awaited, budget>>

\* fetchFeed: `await fetchFeedImpl` rejects
FeedFail(i, err) ==
    /\ UNCHANGED mounted
    /\ i \in DOMAIN feedReqs
    /\ feedReqs[i].call # "resolveHandle"
    /\ error' = SetState(error, MessageOr(err, "Error fetching feed"))
    /\ loading' = SetState(loading, FALSE)
    /\ feedReqs' = Without(feedReqs, i)
    /\ lastCall' = Call("feedFail", "", "", feedReqs[i], props, "")
    /\ UNCHANGED trip
    /\ UNCHANGED <<props, agent, currentUser, posts, cursorRef, hasMore,
                   threadAncestors, threadFocused, threadReplies, threadLoading,
                   threadError, timer, toggles, threadReqs, srv, nextRef, awaited, budget>>

\* fetchFeedImpl in feed mode: `await resolveFeedUri` got the did of the handle
\* and goes on to `await agent.app.bsky.feed.getFeed`.
FeedResolveOk(i) ==
    /\ UNCHANGED mounted
    /\ i \in DOMAIN feedReqs
    /\ feedReqs[i].call = "resolveHandle"
    /\ ResolveHandle(feedReqs[i].key) # Undefined
    /\ feedReqs' = [feedReqs EXCEPT
          ![i].call = "getFeed",
          ![i].key = GeneratorUri(ResolveHandle(feedReqs[i].key), feedReqs[i].feedId)]
    /\ lastCall' = Call("resolveOk", "", "", feedReqs[i], props, "")
    /\ UNCHANGED trip
    /\ UNCHANGED <<props, agent, currentUser, posts, loading, error, cursorRef, hasMore,
                   threadAncestors, threadFocused, threadReplies, threadLoading,
                   threadError, timer, toggles, threadReqs, srv, nextRef, awaited, budget>>

\* fetchFeedImpl in feed mode: agent.resolveHandle rejected, resolveFeedUri
\* returned null, no feed is fetched and fetchFeedImpl resolves with an empty page.
FeedResolveFail(i) ==
    /\ UNCHANGED mounted
    /\ i \in DOMAIN feedReqs
    /\ feedReqs[i].call = "resolveHandle"
    /\ FeedLanded(feedReqs[i].loadMore, fetchFeedImpl([feed |-> <<>>, cursor |-> Undefined]))
    /\ feedReqs' = Without(feedReqs, i)
    /\ lastCall' = Call("resolveFail", "", "", feedReqs[i], props, "")
    /\ trip' = NoTrip
    /\ UNCHANGED <<props, agent, currentUser, error,
                   threadAncestors, threadFocused, threadReplies, threadLoading,
                   threadError, timer, toggles, threadReqs, srv, nextRef, awaited, budget>>

\* The parent chain of the thread response, nearest parent first, nodes without
\* a post skipped.
RECURSIVE AncestorsRaw(_)
AncestorsRaw(current) ==
    IF current = NULL THEN <<>>
    ELSE (IF current.post # NULL THEN <<current>> ELSE <<>>)
         \o AncestorsRaw(current.parent)

\* `!root?.post?.uri`
RootMissing_postOnly(root) == root = NULL \/ root.post = NULL
RootMissing(root) == root = NULL \/ root.post = NULL \/ ~Truthy(root.post.uri)

\* Mutant of ThreadOk: the response of a request that is not the one issued
\* last is dropped.
ThreadOk_latestOnly(i) ==
    /\ UNCHANGED mounted
    /\ i \in DOMAIN threadReqs
    /\ LET root == GetPostThread(srv, threadReqs[i].uri) IN
         IF i # Len(threadReqs)
         THEN UNCHANGED <<threadError, threadAncestors, threadFocused, threadReplies>>
         ELSE IF RootMissing(root)
         THEN /\ threadError' = SetState(threadError, "Post not found or blocked")
              /\ threadAncestors' = SetState(threadAncestors, <<>>)
              /\ threadFocused' = SetState(threadFocused, NULL)
              /\ threadReplies' = SetState(threadReplies, <<>>)
         ELSE /\ threadAncestors' = SetState(threadAncestors,
                   LET anc == Reverse(AncestorsRaw(root.parent))
                   IN [k \in DOMAIN anc |-> normalizePost(anc[k])])
              /\ threadFocused' = SetState(threadFocused, normalizePost(root))
              /\ threadReplies' = SetState(threadReplies,
                   FilterBoolean([k \in DOMAIN root.replies |->
                                     normalizePost(root.replies[k])]))
              /\ UNCHANGED threadError
    /\ threadLoading' = SetState(threadLoading, FALSE)
    /\ threadReqs' = Without(threadReqs, i)
    /\ lastCall' = Call("threadOk", "", "", threadReqs[i], props, "")
    /\ trip' = NoTrip
    /\ UNCHANGED <<props, agent, currentUser, posts, loading, error, cursorRef,
                   hasMore, timer, toggles, feedReqs, srv, nextRef, awaited, budget>>

\* fetchThreadImpl: `await agent.getPostThread` resolves
ThreadOk(i) ==
    /\ UNCHANGED mounted
    /\ i \in DOMAIN threadReqs
    /\ LET root == GetPostThread(srv, threadReqs[i].uri) IN
         IF RootMissing(root)
         THEN /\ threadError' = SetState(threadError, "Post not found or blocked")
              /\ threadAncestors' = SetState(threadAncestors, <<>>)
              /\ threadFocused' = SetState(threadFocused, NULL)
              /\ threadReplies' = SetState(threadReplies, <<>>)
         ELSE /\ threadAncestors' = SetState(threadAncestors,
                   LET anc == Reverse(AncestorsRaw(root.parent))
                   IN [k \in DOMAIN anc |-> normalizePost(anc[k])])
              /\ threadFocused' = SetState(threadFocused, normalizePost(root))
              /\ threadReplies' = SetState(threadReplies,
                   FilterBoolean([k \in DOMAIN root.replies |->
                                     normalizePost(root.replies[k])]))
              /\ UNCHANGED threadError
    /\ threadLoading' = SetState(threadLoading, FALSE)
    /\ threadReqs' = Without(threadReqs, i)
    /\ lastCall' = Call("threadOk", "", "", threadReqs[i], props, "")
    /\ trip' = NoTrip
    /\ UNCHANGED <<props, agent, currentUser, posts, loading, error, cursorRef,
                   hasMore, timer, toggles, feedReqs, srv, nextRef, awaited, budget>>

\* Mutant of ThreadFail: no `finally`, the loading flag stays set.
ThreadFail_noFinally(i, err) ==
    /\ UNCHANGED mounted
    /\ i \in DOMAIN threadReqs
    /\ threadError' = SetState(threadError, MessageOr(err, "Failed to fetch thread"))
    /\ threadReqs' = Without(threadReqs, i)
    /\ lastCall' = Call("threadFail", "", "", threadReqs[i], props, "")
    /\ UNCHANGED trip
    /\ UNCHANGED <<props, agent, currentUser, posts, loading, error, cursorRef,
                   hasMore, threadAncestors, threadFocused, threadReplies,
                   threadLoading, timer, toggles, feedReqs, srv, nextRef, awaited, budget>>

\* Mutant of ThreadFail: the failure also empties the three buckets.
ThreadFail_clears(i, err) ==
    /\ UNCHANGED mounted
    /\ i \in DOMAIN threadReqs
    /\ threadError' = SetState(threadError, MessageOr(err, "Failed to fetch thread"))
    /\ threadAncestors' = SetState(threadAncestors, <<>>)
    /\ threadFocused' = SetState(threadFocused, NULL)
    /\ threadReplies' = SetState(threadReplies, <<>>)
    /\ threadLoading' = SetState(threadLoading, FALSE)
    /\ threadReqs' = Without(threadReqs, i)
    /\ lastCall' = Call("threadFail", "", "", threadReqs[i], props, "")
    /\ UNCHANGED trip
    /\ UNCHANGED <<props, agent, currentUser, posts, loading, error, cursorRef,
                   hasMore, timer, toggles, feedReqs, srv, nextRef, awaited, budget>>

\* fetchThreadImpl: `await agent.getPostThread` rejects
ThreadFail(i, err) ==
    /\ UNCHANGED mounted
    /\ i \in DOMAIN threadReqs
    /\ threadError' = SetState(threadError, MessageOr(err, "Failed to fetch thread"))
    /\ threadLoading' = SetState(threadLoading, FALSE)
    /\ threadReqs' = Without(threadReqs, i)
    /\ lastCall' = Call("threadFail", "", "", threadReqs[i], props, "")
    /\ UNCHANGED trip
    /\ UNCHANGED <<props, agent, currentUser, posts, loading, error, cursorRef,
                   hasMore, threadAncestors, threadFocused, threadReplies,
                   timer, toggles, feedReqs, srv, nextRef, awaited, budget>>

\* ------------------------------------------------- likePost / repostPost
RECURSIVE checkNode(_, _), checkNodes(_, _)
\* likePost.checkNode / repostPost.checkNode
checkNode(n, uri) ==
    IF n = NULL THEN NULL
    ELSE IF n.post.uri = uri THEN n
    ELSE checkNodes(n.replies, uri)
\* the first hit of checkNode over an array: the for loop, and .map(checkNode).find(Boolean)
checkNodes(list, uri) ==
    IF list = <<>> THEN NULL
    ELSE LET found == checkNode(Head(list), uri)
         IN IF found # NULL THEN found ELSE checkNodes(Tail(list), uri)

\* step 1 of likePost / repostPost: the target as the view of `mode` holds it
\* (`||` over the three thread buckets, or posts.find)
LocateIn(mode, focused, ancestors, replies, list, uri) ==
    IF mode = ThreadMode
    THEN LET inFocused == checkNode(focused, uri)
             inAncestors == checkNodes(ancestors, uri)
         IN IF inFocused # NULL THEN inFocused
            ELSE IF inAncestors # NULL THEN inAncestors
            ELSE checkNodes(replies, uri)
    ELSE LET hits == SeqFilter(list, [i \in DOMAIN list |->
                                         list[i] # NULL /\ list[i].post.uri = uri])
         IN IF hits = <<>> THEN NULL ELSE Head(hits)

\* posts.find(p => p.post.uri === uri) throws a TypeError when it meets a null
\* element before an element with that uri.
FindThrows(list, uri) ==
    \E i \in DOMAIN list :
       /\ list[i] = NULL
       /\ \A j \in 1..(i - 1) : list[j] # NULL /\ list[j].post.uri # uri
LocateTarget(uri) ==
    LocateIn(props.mode, threadFocused, threadAncestors, threadReplies, posts, uri)

\* Mutant of IsAlready: the optimistic marker counts as a reference.
IsAlready_anyString(existing) == Truthy(existing)

\* isAlreadyLiked / isAlreadyReposted
IsAlready(existing) == Truthy(existing) /\ existing # Pending

\* `prev.map(item => item.post.uri === uri ? ... : item)` reads `.post` of every
\* item: a null item makes the updater throw while React renders.
MapThrows(list) == \E i \in DOMAIN list : list[i] = NULL
\* The updater runs only while the component is mounted.
RenderThrows(mode) == mounted /\ mode # ThreadMode /\ MapThrows(posts)
Rendered(mode, op) == IF RenderThrows(mode) THEN "crash" ELSE op

\* Apply a transform to whichever state the handler's `mode` names. When the
\* updater throws, the tree unmounts and the cleanup of the trigger effect
\* clears its timeout.
ApplyToView(mode, uri, f) ==
    /\ mounted' = (mounted /\ ~RenderThrows(mode))
    /\ timer' = IF RenderThrows(mode) THEN NULL ELSE timer
    /\ IF mode = ThreadMode
       THEN /\ threadFocused' = SetState(threadFocused,
                                         updateThreadNode(threadFocused, uri, f))
            /\ threadAncestors' = SetState(threadAncestors,
                                           updateThreadNodes(threadAncestors, uri, f))
            /\ threadReplies' = SetState(threadReplies,
                                         updateThreadNodes(threadReplies, uri, f))
            /\ UNCHANGED posts
       ELSE /\ posts' = IF MapThrows(posts) THEN posts
                        ELSE SetState(posts, mapReplace(posts, uri, f))
            /\ UNCHANGED <<threadFocused, threadAncestors, threadReplies>>

NoFn == [fn |-> "", kind |-> "", isAlready |-> FALSE, ref |-> Undefined,
         likers |-> <<>>, did |-> Undefined]

\* `cidToUse = cidToUse ?? node.post.cid` in likePost, where only a missing cid
\* is replaced; `cidToUse = cidToUse || node.post.cid` in repostPost, where
\* every falsy cid is. `found` is the node the handler found, or NULL.
CidToUse(kind, cid, found) ==
    IF found = NULL THEN cid
    ELSE IF kind = "like"
         THEN (IF cid = Undefined THEN found.post.cid ELSE cid)
         ELSE (IF Truthy(cid) THEN cid ELSE found.post.cid)

\* `if (!agent) return` and `if (!cidToUse) return`
CanProceed_anyCid(ag, cidToUse) == ag
CanProceed(ag, cidToUse) == ag /\ Truthy(cidToUse)

\* The like round trip being followed: stage 0 none, 1 first like in flight,
\* 2 first like committed, 3 second like in flight, 4 second like committed;
\* n is the likeCount the first likePost found.
TripOnStart(kind, uri, found, proceeds) ==
    IF kind # "like" \/ (uri # trip.uri /\ trip.stage # 0) THEN trip
    ELSE IF ~proceeds THEN trip
    ELSE IF trip.stage = 0 /\ toggles = <<>> /\ found # NULL
            /\ found.post.viewer.like = Undefined
         THEN [stage |-> 1, uri |-> uri, n |-> found.post.likeCount]
    ELSE IF trip.stage = 2 /\ toggles = <<>> THEN [trip EXCEPT !.stage = 3]
    ELSE NoTrip
TripOnCommit(t) ==
    IF t.kind # "like" \/ t.uri # trip.uri THEN trip
    ELSE IF trip.stage \in {1, 3} THEN [trip EXCEPT !.stage = @ + 1]
    ELSE NoTrip

\* likePost(uri, cid) / repostPost(uri, cid) up to the first await
ToggleStart(kind, uri, cid) ==
    /\ mounted
    /\ budget > 0
    /\ budget' = budget - 1
    /\ LET found == LocateTarget(uri)
           existing == IF found # NULL THEN found.post.viewer[kind] ELSE Undefined
           cidToUse == CidToUse(kind, cid, found)
           isAlready == IsAlready(existing)
           threw == agent /\ props.mode # ThreadMode /\ FindThrows(posts, uri)
       IN /\ lastCall' = Call(IF threw THEN "throw"
                               ELSE IF ~CanProceed(agent, cidToUse) THEN "start"
                               ELSE Rendered(props.mode, "start"),
                               kind, uri, cid, props, "")
          /\ trip' = IF threw THEN trip
                     ELSE TripOnStart(kind, uri, found, CanProceed(agent, cidToUse))
          /\ IF threw \/ ~CanProceed(agent, cidToUse)
             THEN UNCHANGED <<posts, threadFocused, threadAncestors, threadReplies,
                              toggles, timer, mounted>>
             ELSE /\ ApplyToView(props.mode, uri,
                         [NoFn EXCEPT !.fn = "performUpdate", !.kind = kind,
                                      !.isAlready = isAlready])
                  /\ toggles' = Append(toggles,
                         [kind |-> kind, uri |-> uri, cid |-> cidToUse,
                          isAlready |-> isAlready, existing |-> existing,
                          props |-> props,
                          did |-> IF currentUser = NULL THEN Undefined
                                  ELSE currentUser.did,
                          stage |-> IF isAlready THEN "delete" ELSE "create",
                          res |-> Undefined])
    /\ UNCHANGED <<props, agent, currentUser, loading, error, cursorRef, hasMore,
                   threadLoading, threadError, feedReqs, threadReqs, srv, nextRef, awaited>>

\* `await agent.deleteLike(existingLikeUri)` / `agent.deleteRepost` resolves
ToggleDeleteOk(i) ==
    /\ i \in DOMAIN toggles
    /\ toggles[i].stage = "delete"
    /\ LET t == toggles[i] IN
         /\ srv' = SrvDelete(srv, t.kind, t.uri, t.existing)
         /\ ApplyToView(t.props.mode, t.uri,
               [NoFn EXCEPT !.fn = IF t.kind = "like" THEN "removeSelf" ELSE "clearRepost",
                            !.kind = t.kind, !.did = t.did])
         /\ lastCall' = Call(Rendered(t.props.mode, "deleteOk"), t.kind, t.uri, t.existing, t.props, t.stage)
         /\ trip' = TripOnCommit(t)
    /\ toggles' = Without(toggles, i)
    /\ UNCHANGED <<props, agent, currentUser, loading, error, cursorRef, hasMore,
                   threadLoading, threadError, feedReqs, threadReqs,
                   nextRef, awaited, budget>>

\* `await agent.like(uri, cidToUse)` / `agent.repost(uri, cidToUse)` resolves.
\* likePost goes on to `await agent.getLikes`; repostPost finalizes at once.
ToggleCreateOk(i) ==
    /\ i \in DOMAIN toggles
    /\ toggles[i].stage = "create"
    /\ LET t == toggles[i] IN
         /\ srv' = SrvCreate(srv, t.kind, t.uri, Ref(nextRef))
         /\ nextRef' = nextRef + 1
         /\ lastCall' = Call(IF t.kind = "like" THEN "createOk"
                              ELSE Rendered(t.props.mode, "createOk"),
                              t.kind, t.uri, Ref(nextRef), t.props, t.stage)
         /\ IF t.kind = "like"
            THEN /\ toggles' = [toggles EXCEPT ![i].stage = "likers",
                                               ![i].res = Ref(nextRef)]
                 /\ UNCHANGED <<posts, threadFocused, threadAncestors, threadReplies,
                                timer, mounted>>
            ELSE /\ toggles' = Without(toggles, i)
                 /\ ApplyToView(t.props.mode, t.uri,
                       [NoFn EXCEPT !.fn = "finalizeRepost", !.kind = t.kind,
                                    !.ref = Ref(nextRef)])
    /\ UNCHANGED <<props, agent, currentUser, loading, error, cursorRef, hasMore,
                   threadLoading, threadError, feedReqs, threadReqs, awaited,
                   budget, trip>>

\* likePost: `await agent.getLikes({uri, limit: 5})` resolves
ToggleLikersOk(i) ==
    /\ i \in DOMAIN toggles
    /\ toggles[i].stage = "likers"
    /\ LET t == toggles[i] IN
         /\ ApplyToView(t.props.mode, t.uri,
               [NoFn EXCEPT !.fn = "finalUpdate", !.kind = t.kind, !.ref = t.res,
                            !.likers = GetLikes(srv, t.uri)])
         /\ lastCall' = Call(Rendered(t.props.mode, "likersOk"), t.kind, t.uri, t.res, t.props, t.stage)
         /\ trip' = TripOnCommit(t)
    /\ toggles' = Without(toggles, i)
    /\ UNCHANGED <<props, agent, currentUser, loading, error, cursorRef, hasMore,
                   threadLoading, threadError, feedReqs, threadReqs,
                   srv, nextRef, awaited, budget>>

\* The catch block: `mode === 'thread' ? fetchThread() : fetchFeed()`, with the
\* mode, threadUri and agent of the render the handler was created in.
Revert_logOnly(q) ==
    UNCHANGED <<posts, loading, error, cursorRef, hasMore, feedReqs,
                threadLoading, threadError, threadReqs>>
\* Mutant of Revert: the flat refetch asks for the next page, as loadMore does.
Revert_nextPage(q) ==
    IF q.mode = ThreadMode
    THEN /\ StartFetchThread(q, TRUE)
         /\ UNCHANGED <<posts, loading, error, cursorRef, hasMore, feedReqs>>
    ELSE StartFetchFeed(q, TRUE, TRUE)
Revert(q) ==
    IF q.mode = ThreadMode
    THEN /\ StartFetchThread(q, TRUE)
         /\ UNCHANGED <<posts, loading, error, cursorRef, hasMore, feedReqs>>
    ELSE StartFetchFeed(q, TRUE, FALSE)

\* Any of the awaited calls of likePost / repostPost rejects.
ToggleFail(i) ==
    /\ UNCHANGED mounted
    /\ i \in DOMAIN toggles
    /\ LET t == toggles[i] IN
         /\ Revert(t.props)
         /\ lastCall' = Call("fail", t.kind, t.uri, t.res, t.props, t.stage)
         /\ trip' = IF t.kind = "like" /\ t.uri = trip.uri THEN NoTrip ELSE trip
    /\ toggles' = Without(toggles, i)
    /\ UNCHANGED <<props, agent, currentUser, threadAncestors, threadFocused,
                   threadReplies, timer, srv, nextRef, awaited, budget>>

\* ------------------------------------ other methods of the imperative handle
\* logout of the imperative handle, up to `await session?.signOut()` inside
\* `await logout()`. Without a session there is nothing to wait for: the
\* continuation runs at once (setSession(null), setCurrentUser(null), setPosts([])).
Logout ==
    /\ mounted
    /\ UNCHANGED mounted
    /\ budget > 0
    /\ budget' = budget - 1
    /\ lastCall' = Call("logout", "", "", "", props, "")
    /\ IF agent
       THEN /\ awaited' = Append(awaited, Awaited("signOut", "", NoCall.props))
            /\ UNCHANGED <<posts, currentUser, trip>>
       ELSE /\ posts' = <<>>
            /\ currentUser' = NULL
            /\ trip' = NoTrip
            /\ UNCHANGED awaited
    /\ UNCHANGED <<props, agent, loading, error, cursorRef, hasMore,
                   threadAncestors, threadFocused, threadReplies, threadLoading,
                   threadError, timer, toggles, feedReqs, threadReqs, srv, nextRef>>

\* logout: `await session?.signOut()` resolves: setSession(null) (agent and
\* isLoggedIn go, the trigger effect runs again when isLoggedIn changed), then
\* setCurrentUser(null), then setPosts([]).
SignOutOk(i) ==
    /\ UNCHANGED mounted
    /\ i \in DOMAIN awaited
    /\ awaited[i].call = "signOut"
    /\ agent' = SetState(agent, FALSE)
    /\ currentUser' = SetState(currentUser, NULL)
    /\ posts' = SetState(posts, <<>>)
    /\ IF agent /\ mounted THEN RunTriggerEffect(props, FALSE)
       ELSE UNCHANGED <<timer, threadLoading, threadError, threadReqs>>
    /\ awaited' = Without(awaited, i)
    /\ lastCall' = Call("signOutOk", "", "", "", props, "")
    /\ trip' = NoTrip
    /\ UNCHANGED <<props, loading, error, cursorRef, hasMore,
                   threadAncestors, threadFocused, threadReplies,
                   toggles, feedReqs, srv, nextRef, budget>>

\* fetchPostLikes(uri) of the imperative handle, up to `await agent.getLikes`:
\* `if (!agent || !uri) return`.
FetchPostLikes(uri) ==
    /\ mounted
    /\ UNCHANGED mounted
    /\ budget > 0
    /\ budget' = budget - 1
    /\ lastCall' = Call("fetchPostLikes", "", uri,
                        IF agent /\ Truthy(uri) THEN "call" ELSE "skipped", props, "")
    /\ awaited' = IF agent /\ Truthy(uri)
                  THEN Append(awaited, Awaited("getLikes", uri, props))
                  ELSE awaited
    /\ UNCHANGED trip
    /\ UNCHANGED <<props, agent, currentUser, view, timer, toggles, feedReqs, threadReqs,
                   srv, nextRef>>

\* fetchPostLikes: `await agent.getLikes({uri, limit})` resolves: updateWithLikers
\* on the state the handler's mode names.
LikesOk(i) ==
    /\ i \in DOMAIN awaited
    /\ awaited[i].call = "getLikes"
    /\ LET c == awaited[i] IN
         /\ ApplyToView(c.props.mode, c.uri,
               [NoFn EXCEPT !.fn = "updateWithLikers", !.likers = GetLikes(srv, c.uri)])
         /\ lastCall' = Call(Rendered(c.props.mode, "likesOk"), "", c.uri, "", c.props, "")
    /\ awaited' = Without(awaited, i)
    /\ UNCHANGED trip
    /\ UNCHANGED <<props, agent, currentUser, loading, error, cursorRef, hasMore,
                   threadLoading, threadError, toggles, feedReqs, threadReqs,
                   srv, nextRef, budget>>

\* An image of a createPost call is TRUE when coerceToBlob converts it and
\* FALSE when it returns null: `if (!rawBlob) continue`.
RECURSIVE SkipUnconvertible(_)
SkipUnconvertible(images) ==
    IF images # <<>> /\ ~Head(images) THEN SkipUnconvertible(Tail(images)) ELSE images
\* `text.trim()` of the record createPost builds: a TypeError when the text
\* argument was left out.
TrimThrows(text) == text = Undefined
\* createPost at the top of its loop, `left` being the images still to do: it
\* runs up to `await compressImage(rawBlob)` for the next convertible image
\* or, the loop done, builds the record and runs up to `await agent.post(record)`.
\* When `text.trim()` throws there, the catch sets postError, nothing is posted
\* and nothing is awaited any more: NULL.
NextAwait(left, uploaded, q, text) ==
    LET rest == SkipUnconvertible(left) IN
    IF rest # <<>>
    THEN [Awaited("compressImage", "", q) EXCEPT !.left = rest, !.uploaded = uploaded,
                                                 !.text = text]
    ELSE IF TrimThrows(text) THEN NULL
    ELSE [Awaited("post", "", q) EXCEPT !.uploaded = uploaded, !.text = text]
\* The awaited call i goes on as `next`, or its handler has ended.
GoesOn(i, next) ==
    IF next = NULL THEN Without(awaited, i) ELSE [awaited EXCEPT ![i] = next]

\* createPost of the imperative handle, up to its first await:
\* `if (!agent) return`, then the loop over `images.slice(0, 4)` and, with no
\* image to compress, the record with `text.trim()`. The flags posting and
\* postError of the composer are not part of the state modelled here: a call
\* that ends in the catch leaves nothing behind but its label.
CreatePost(text, images) ==
    /\ mounted
    /\ UNCHANGED mounted
    /\ budget > 0
    /\ budget' = budget - 1
    /\ LET first4 == SubSeq(images, 1, IF Len(images) < 4 THEN Len(images) ELSE 4)
           next == NextAwait(first4, 0, props, text)
       IN /\ awaited' = IF agent /\ next # NULL THEN Append(awaited, next) ELSE awaited
          /\ lastCall' = Call("createPost", "", "",
                              IF ~agent THEN "skipped"
                              ELSE IF next = NULL THEN "threw" ELSE "call",
                              props, "")
    /\ UNCHANGED trip
    /\ UNCHANGED <<props, agent, currentUser, view, timer, toggles, feedReqs, threadReqs,
                   srv, nextRef>>

\* createPost: `await compressImage(rawBlob)` resolves, with an empty result
\* (`if (!compressed || compressed.size === 0) continue`) or with a blob, which
\* goes to `await agent.uploadBlob(compressed, {encoding})`.
CompressOk(i, empty) ==
    /\ UNCHANGED mounted
    /\ i \in DOMAIN awaited
    /\ awaited[i].call = "compressImage"
    /\ LET c == awaited[i] IN
         awaited' = IF empty
                    THEN GoesOn(i, NextAwait(Tail(c.left), c.uploaded, c.props, c.text))
                    ELSE [awaited EXCEPT ![i] = [c EXCEPT !.call = "uploadBlob"]]
    /\ lastCall' = Call("compressOk", "", "", empty, awaited[i].props, "")
    /\ UNCHANGED trip
    /\ UNCHANGED <<props, agent, currentUser, view, timer, toggles, feedReqs, threadReqs,
                   srv, nextRef, budget>>

\* createPost: `await agent.uploadBlob` resolves: uploadedBlobs.push, and the
\* loop goes on.
UploadOk(i) ==
    /\ UNCHANGED mounted
    /\ i \in DOMAIN awaited
    /\ awaited[i].call = "uploadBlob"
    /\ LET c == awaited[i] IN
         awaited' = GoesOn(i, NextAwait(Tail(c.left), c.uploaded + 1, c.props, c.text))
    /\ lastCall' = Call("uploadOk", "", "", "", awaited[i].props, "")
    /\ UNCHANGED trip
    /\ UNCHANGED <<props, agent, currentUser, view, timer, toggles, feedReqs, threadReqs,
                   srv, nextRef, budget>>

\* createPost: `await agent.post(record)` resolves, "Refresh view":
\* `mode === 'thread' ? fetchThread() : fetchFeed()` with the mode, threadUri and
\* agent of the render the handler was created in. The pages the service
\* answers with are those of ServerPages: where the new post shows up is the
\* service's business.
PostOk(i) ==
    /\ UNCHANGED mounted
    /\ i \in DOMAIN awaited
    /\ awaited[i].call = "post"
    /\ Revert(awaited[i].props)
    /\ awaited' = Without(awaited, i)
    /\ lastCall' = Call("postOk", "", "", "", awaited[i].props, "")
    /\ UNCHANGED trip
    /\ UNCHANGED <<props, agent, currentUser, threadAncestors, threadFocused,
                   threadReplies, timer, toggles, srv, nextRef, budget>>

\* One of the other awaited calls rejects. getProfile and getLikes: the catch
\* only logs. compressImage, uploadBlob and post of createPost: the catch sets
\* postError, nothing more is uploaded or posted and nothing is refetched.
\* signOut: logout rejects before any of its setters.
AwaitedFail(i) ==
    /\ UNCHANGED mounted
    /\ i \in DOMAIN awaited
    /\ awaited' = Without(awaited, i)
    /\ lastCall' = Call("awaitedFail", "", awaited[i].uri, awaited[i].call, props, "")
    /\ UNCHANGED trip
    /\ UNCHANGED <<props, agent, currentUser, view, timer, toggles, feedReqs, threadReqs,
                   srv, nextRef, budget>>

\* ------------------------------------------------------------------ Next
\* The provider in one list mode and in thread mode, with every function of its
\* handle and every answer and rejection of the calls they await, and the
\* session with its profile request and its sign-out.
\* The calls of likePost / repostPost: on the post that carries the viewer's
\* records and on one that does not, with the cid left out, passed, or empty.
\* The images createPost is called with: none, or one that does not convert
\* followed by one that does; its text: a string, or left out. Here and in
\* the list and thread views every call but the one with both a text and
\* images; the overlapping fetches have that one too.
PostImages == {<<>>, <<FALSE, TRUE>>}
PostTexts == {"hello", Undefined}
PostCalls == (PostTexts \X PostImages) \ {<<"hello", <<FALSE, TRUE>>>>}
ToggleCalls ==
    {<<"like", "a", Undefined>>, <<"like", "c", Undefined>>,
     <<"like", "c", CidOf("c")>>, <<"like", "c", "">>,
     <<"repost", "a", Undefined>>, <<"repost", "c", Undefined>>,
     <<"repost", "c", "">>}
Next ==
    \/ \E q \in PropSet : SetProps(q)
    \/ SignIn
    \/ \E i \in 1..(MaxActions + 1) : ProfileOk(i)
    \/ Logout
    \/ \E i \in 1..(MaxActions + 1) : SignOutOk(i)
    \/ TimerFire
    \/ LoadMore
    \/ \E i \in 1..(MaxActions + 1) : FeedOk(i)
    \/ \E i \in 1..(MaxActions + 1), err \in Rejections : FeedFail(i, err)
    \/ \E i \in 1..(MaxActions + 1) : ThreadOk(i)
    \/ \E i \in 1..(MaxActions + 1), err \in Rejections : ThreadFail(i, err)
    \/ \E c \in ToggleCalls : ToggleStart(c[1], c[2], c[3])
    \/ \E i \in 1..MaxActions : ToggleDeleteOk(i)
    \/ \E i \in 1..MaxActions : ToggleCreateOk(i)
    \/ \E i \in 1..MaxActions : ToggleLikersOk(i)
    \/ \E i \in 1..MaxActions : ToggleFail(i)
    \/ FetchPostLikes("a")
    \/ \E i \in 1..(MaxActions + 1) : LikesOk(i)
    \/ \E c \in PostCalls : CreatePost(c[1], c[2])
    \/ \E i \in 1..(MaxActions + 1), empty \in BOOLEAN : CompressOk(i, empty)
    \/ \E i \in 1..(MaxActions + 1) : UploadOk(i)
    \/ \E i \in 1..(MaxActions + 1) : PostOk(i)
    \/ \E i \in 1..(MaxActions + 1) : AwaitedFail(i)

Spec == Init /\ [][Next]_vars

\* ------------------------------------------------- the list views: FeedSpec
\* The provider in its list modes (timeline, author, search, feed) over the
\* sources of the service, with every function of its handle and every answer and
\* rejection of the calls they await. The provider starts with any of the props
\* of FeedPropSet; its props change to those of FeedChangeSet.
FeedPropSet ==
    {Props("timeline", Undefined, Undefined, Undefined, Undefined),
     Props("author", Bob, Undefined, Undefined, Undefined),
     Props("author", Undefined, Undefined, Undefined, Undefined),
     Props("search", Undefined, Undefined, "", Undefined),
     Props("feed", Undefined, Undefined, Undefined, Undefined),
     Props("feed", Undefined, HotFeedUrl, Undefined, Undefined),
     Props("feed", Undefined, JunkFeedUrl, Undefined, Undefined)}

FeedInit ==
    /\ props \in FeedPropSet
    /\ agent = FALSE
    /\ currentUser = NULL
    /\ posts = <<>> /\ loading = FALSE /\ error = NoError
    /\ cursorRef = Undefined /\ hasMore = TRUE
    /\ threadAncestors = <<>> /\ threadFocused = NULL /\ threadReplies = <<>>
    /\ threadLoading = FALSE /\ threadError = NoError
    /\ timer = [props |-> props, agent |-> FALSE]
    /\ toggles = <<>> /\ feedReqs = <<>> /\ threadReqs = <<>>
    /\ srv = SrvInit(0, FALSE, FALSE)
    /\ nextRef = 1
    /\ awaited = <<>>
    /\ budget = MaxActions
    /\ lastCall = NoCall
    /\ trip = NoTrip
    /\ mounted = TRUE

FeedChangeSet ==
    {WithLimit(Props("search", Undefined, Undefined, Cats, Undefined), 10)}

\* The calls of likePost / repostPost: on the first post of the page and on a
\* later one.
FeedToggleCalls == {<<"like", "a">>, <<"like", "c">>}
FeedNext ==
    \/ \E q \in FeedChangeSet : SetProps(q)
    \/ SignIn
    \/ \E i \in 1..(MaxActions + 1) : ProfileOk(i)
    \/ Logout
    \/ \E i \in 1..(MaxActions + 1) : SignOutOk(i)
    \/ TimerFire
    \/ LoadMore
    \/ \E i \in 1..(MaxActions + 1) : FeedOk(i)
    \/ \E i \in 1..(MaxActions + 1), err \in Rejections : FeedFail(i, err)
    \/ \E i \in 1..(MaxActions + 1) : FeedResolveOk(i)
    \/ \E i \in 1..(MaxActions + 1) : FeedResolveFail(i)
    \/ \E c \in FeedToggleCalls : ToggleStart(c[1], c[2], Undefined)
    \/ \E i \in 1..MaxActions : ToggleDeleteOk(i)
    \/ \E i \in 1..MaxActions : ToggleCreateOk(i)
    \/ \E i \in 1..MaxActions : ToggleLikersOk(i)
    \/ \E i \in 1..MaxActions : ToggleFail(i)
    \/ FetchPostLikes("c")
    \/ \E i \in 1..(MaxActions + 1) : LikesOk(i)
    \/ \E c \in PostCalls : CreatePost(c[1], c[2])
    \/ \E i \in 1..(MaxActions + 1), empty \in BOOLEAN : CompressOk(i, empty)
    \/ \E i \in 1..(MaxActions + 1) : UploadOk(i)
    \/ \E i \in 1..(MaxActions + 1) : PostOk(i)
    \/ \E i \in 1..(MaxActions + 1) : AwaitedFail(i)

FeedSpec == FeedInit /\ [][FeedNext]_vars

\* --------------------------------------------- the thread view: ThreadSpec
\* The provider in thread mode over every thread the service answers, with every
\* function of its handle and every answer and rejection of the calls they
\* await. The provider starts with any of the props of ThreadPropSet; its props
\* change to those of ThreadChangeSet.
ThreadPropSet ==
    {Props(ThreadMode, Undefined, Undefined, Undefined, u) :
        u \in ThreadUris \cup {Undefined}}
    \cup {WithLimit(Props(ThreadMode, Undefined, Undefined, Undefined, ThreadRootUri), 10)}

ThreadInit ==
    /\ props \in ThreadPropSet
    /\ agent = FALSE
    /\ currentUser = NULL
    /\ posts = <<>> /\ loading = FALSE /\ error = NoError
    /\ cursorRef = Undefined /\ hasMore = TRUE
    /\ threadAncestors = <<>> /\ threadFocused = NULL /\ threadReplies = <<>>
    /\ threadLoading = FALSE
    /\ threadError = IF Truthy(props.threadUri) THEN NoSessionError ELSE NoError
    /\ timer = NULL
    /\ toggles = <<>> /\ feedReqs = <<>> /\ threadReqs = <<>>
    /\ srv = SrvInit(0, FALSE, FALSE)
    /\ nextRef = 1
    /\ awaited = <<>>
    /\ budget = MaxActions
    /\ lastCall = NoCall
    /\ trip = NoTrip
    /\ mounted = TRUE

ThreadChangeSet ==
    {Props(ThreadMode, Undefined, Undefined, Undefined, Undefined),
     Props(ThreadMode, Undefined, Undefined, Undefined, ThreadRootUri),
     Props(ThreadMode, Undefined, Undefined, Undefined, GoneThreadUri)}

ThreadNext ==
    \/ \E q \in ThreadChangeSet : SetProps(q)
    \/ SignIn
    \/ \E i \in 1..(MaxActions + 1) : ProfileOk(i)
    \/ Logout
    \/ \E i \in 1..(MaxActions + 1) : SignOutOk(i)
    \/ LoadMore
    \/ \E i \in 1..(MaxActions + 1) : ThreadOk(i)
    \/ \E i \in 1..(MaxActions + 1), err \in Rejections : ThreadFail(i, err)
    \/ ToggleStart("like", "c", Undefined)
    \/ \E i \in 1..MaxActions : ToggleDeleteOk(i)
    \/ \E i \in 1..MaxActions : ToggleCreateOk(i)
    \/ \E i \in 1..MaxActions : ToggleLikersOk(i)
    \/ \E i \in 1..MaxActions : ToggleFail(i)
    \/ FetchPostLikes("c")
    \/ \E i \in 1..(MaxActions + 1) : LikesOk(i)
    \/ \E c \in PostCalls : CreatePost(c[1], c[2])
    \/ \E i \in 1..(MaxActions + 1), empty \in BOOLEAN : CompressOk(i, empty)
    \/ \E i \in 1..(MaxActions + 1) : UploadOk(i)
    \/ \E i \in 1..(MaxActions + 1) : PostOk(i)
    \/ \E i \in 1..(MaxActions + 1) : AwaitedFail(i)

ThreadSpec == ThreadInit /\ [][ThreadNext]_vars

\* The promise of agent.getPostThread settles: a request in flight is answered
\* or rejected in the end.
ThreadSettles ==
    \E i \in 1..(MaxActions + 1) :
       (\E err \in Rejections : ThreadFail(i, err)) \/ ThreadOk(i)
\* The provider mounted on the thread of ThreadRootUri; the other threads are
\* reached by a change of props.
ThreadLiveInit ==
    /\ ThreadInit
    /\ props = Props(ThreadMode, Undefined, Undefined, Undefined, ThreadRootUri)
ThreadLiveSpec == ThreadLiveInit /\ [][ThreadNext]_vars /\ WF_vars(ThreadSettles)

\* ------------------------------- list and thread views together: OverlapSpec
\* The provider mounted on a search and switched between list sources and two
\* threads, so that requests of different sources are in flight together, with
\* every function of its handle and every answer and rejection of the calls
\* they await.
OverlapPropSet ==
    {Props("search", Undefined, Undefined, Cats, Undefined),
     Props("feed", Undefined, HotFeedUrl, Undefined, Undefined),
     Props(ThreadMode, Undefined, Undefined, Undefined, ThreadRootUri),
     Props(ThreadMode, Undefined, Undefined, Undefined, DeepThreadUri)}

OverlapInit ==
    /\ props = Props("search", Undefined, Undefined, Cats, Undefined)
    /\ agent = FALSE
    /\ currentUser = NULL
    /\ posts = <<>> /\ loading = FALSE /\ error = NoError
    /\ cursorRef = Undefined /\ hasMore = TRUE
    /\ threadAncestors = <<>> /\ threadFocused = NULL /\ threadReplies = <<>>
    /\ threadLoading = FALSE
    /\ threadError = IF props.mode = ThreadMode THEN NoSessionError ELSE NoError
    /\ timer = IF props.mode = ThreadMode THEN NULL
               ELSE [props |-> props, agent |-> FALSE]
    /\ toggles = <<>> /\ feedReqs = <<>> /\ threadReqs = <<>>
    /\ srv = SrvInit(0, FALSE, FALSE)
    /\ nextRef = 1
    /\ awaited = <<>>
    /\ budget = MaxActions
    /\ lastCall = NoCall
    /\ trip = NoTrip
    /\ mounted = TRUE

OverlapNext ==
    \/ \E q \in OverlapPropSet : SetProps(q)
    \/ SignIn
    \/ \E i \in 1..(MaxActions + 1) : ProfileOk(i)
    \/ Logout
    \/ \E i \in 1..(MaxActions + 1) : SignOutOk(i)
    \/ TimerFire
    \/ LoadMore
    \/ \E i \in 1..(MaxActions + 1) : FeedOk(i)
    \/ \E i \in 1..(MaxActions + 1), err \in Rejections : FeedFail(i, err)
    \/ \E i \in 1..(MaxActions + 1) : FeedResolveOk(i)
    \/ \E i \in 1..(MaxActions + 1) : FeedResolveFail(i)
    \/ \E i \in 1..(MaxActions + 1) : ThreadOk(i)
    \/ \E i \in 1..(MaxActions + 1), err \in Rejections : ThreadFail(i, err)
    \/ \E kind \in Kinds : ToggleStart(kind, "b", Undefined)
    \/ \E i \in 1..MaxActions : ToggleDeleteOk(i)
    \/ \E i \in 1..MaxActions : ToggleCreateOk(i)
    \/ \E i \in 1..MaxActions : ToggleLikersOk(i)
    \/ \E i \in 1..MaxActions : ToggleFail(i)
    \/ FetchPostLikes("b")
    \/ \E i \in 1..(MaxActions + 1) : LikesOk(i)
    \/ \E text \in PostTexts, images \in PostImages : CreatePost(text, images)
    \/ \E i \in 1..(MaxActions + 1), empty \in BOOLEAN : CompressOk(i, empty)
    \/ \E i \in 1..(MaxActions + 1) : UploadOk(i)
    \/ \E i \in 1..(MaxActions + 1) : PostOk(i)
    \/ \E i \in 1..(MaxActions + 1) : AwaitedFail(i)

OverlapSpec == OverlapInit /\ [][OverlapNext]_vars

\* The awaited calls of fetchFeedImpl settle: a request in flight is answered or
\* rejected in the end.
FeedSettles ==
    \E i \in 1..(MaxActions + 1) :
       \/ (\E err \in Rejections : FeedFail(i, err))
       \/ FeedResolveFail(i) \/ FeedResolveOk(i) \/ FeedOk(i)
\* The timeout of the trigger effect fires unless the cleanup clears it: a
\* timeout does not stay pending for ever. TimerFire is enabled exactly when a
\* timeout is pending on a mounted provider and it always clears the timeout,
\* so this is WF_vars(TimerFire) written as a condition on states.
TimerExpires == []<>(timer = NULL)
OverlapLiveSpec ==
    /\ OverlapInit /\ [][OverlapNext]_vars
    /\ TimerExpires /\ WF_vars(FeedSettles) /\ WF_vars(ThreadSettles)

\* ------------------------------------------ resolveFeedUri alone: ResolveSpec
\* Feed URLs assembled from their parts, so that every arm of the pattern is met.
UrlParts ==
    [prefix : {"", "https://bsky.app/", "x", "profile/"},
     identifier : {"", Alice, AliceDid, "nobody.test"},
     mid : {"/feed/", "/feeds/", "/"},
     feedId : {"", "hot"},
     suffix : {"", "/more"}]
UrlOf(parts) ==
    parts.prefix \o "profile/" \o parts.identifier \o parts.mid \o parts.feedId
        \o parts.suffix
FeedUrlSet ==
    {UrlOf(parts) : parts \in UrlParts}
        \cup {"", JunkFeedUrl, DISCOVER_FEED_URI, HotFeedUri, "at://"}

ResolveInit ==
    /\ \E url \in FeedUrlSet : props = Props("feed", Undefined, url, Undefined, Undefined)
    /\ agent \in BOOLEAN
    /\ currentUser = NULL
    /\ posts = <<>> /\ loading = FALSE /\ error = NoError
    /\ cursorRef = Undefined /\ hasMore = TRUE
    /\ threadAncestors = <<>> /\ threadFocused = NULL /\ threadReplies = <<>>
    /\ threadLoading = FALSE /\ threadError = NoError
    /\ timer = NULL
    /\ toggles = <<>> /\ feedReqs = <<>> /\ threadReqs = <<>>
    /\ srv = SrvInit(0, FALSE, FALSE)
    /\ nextRef = 1
    /\ awaited = <<>>
    /\ budget = MaxActions
    /\ lastCall = NoCall
    /\ trip = NoTrip
    /\ mounted = TRUE

\* resolveFeedUri(agent, feedUrl) is called and runs up to its await: it returns
\* without a remote call, or agent.resolveHandle is in flight.
ResolveCall ==
    /\ lastCall = NoCall
    /\ UNCHANGED mounted
    /\ LET start == ResolveStart(agent, props.feedUrl) IN
         IF start.do = "return"
         THEN /\ lastCall' = Call("resolveFeedUri", "", props.feedUrl,
                                  [result |-> resolveFeedUri(agent, props.feedUrl, Undefined),
                                   answer |-> Undefined],
                                  props, "")
              /\ UNCHANGED awaited
         ELSE /\ lastCall' = Call("resolveHandle", "", props.feedUrl, start.handle,
                                  props, "")
              /\ awaited' = Append(awaited, Awaited("resolveHandle", start.handle, props))
    /\ UNCHANGED <<props, agent, currentUser, posts, loading, error, cursorRef, hasMore,
                   threadAncestors, threadFocused, threadReplies, threadLoading,
                   threadError, timer, toggles, feedReqs, threadReqs, srv, nextRef,
                   budget, trip>>

\* `await agent.resolveHandle({handle})` settles: it answers with the did of the
\* handle or rejects (also for a handle the service does not know), and
\* resolveFeedUri returns.
ResolveAnswer(i, rejected) ==
    /\ i \in DOMAIN awaited
    /\ UNCHANGED mounted
    /\ awaited[i].call = "resolveHandle"
    /\ LET answer == IF rejected THEN Undefined ELSE ResolveHandle(awaited[i].uri) IN
         lastCall' = Call("resolveFeedUri", "", awaited[i].props.feedUrl,
                          [result |-> resolveFeedUri(agent, awaited[i].props.feedUrl, answer),
                           answer |-> answer],
                          awaited[i].props, "")
    /\ awaited' = Without(awaited, i)
    /\ UNCHANGED <<props, agent, currentUser, posts, loading, error, cursorRef, hasMore,
                   threadAncestors, threadFocused, threadReplies, threadLoading,
                   threadError, timer, toggles, feedReqs, threadReqs, srv, nextRef,
                   budget, trip>>

ResolveNext ==
    \/ ResolveCall
    \/ \E rejected \in BOOLEAN : ResolveAnswer(1, rejected)

ResolveSpec == ResolveInit /\ [][ResolveNext]_vars

\* ----------------------------------------- updateThreadNode alone: TreeSpec
\* Normalized nodes over three uris, and null entries, in every shape of at most
\* MaxNodes nodes.
TreeUris == {"a", "b", "c"}
TreeNode(u, replies) ==
    [normalizePost(ServerPost(SrvInit(0, FALSE, FALSE), u)) EXCEPT !.replies = replies]
RECURSIVE TreesOfSize(_), ForestsOfSize(_)
TreesOfSize(n) ==
    IF n = 1 THEN {TreeNode(u, <<>>) : u \in TreeUris} \cup {NULL}
    ELSE {TreeNode(u, f) : u \in TreeUris, f \in ForestsOfSize(n - 1)}
ForestsOfSize(m) ==
    IF m = 0 THEN {<<>>}
    ELSE UNION {{<<tr>> \o f : tr \in TreesOfSize(k), f \in ForestsOfSize(m - k)} :
                   k \in 1..m}

\* The transforms handed over: the optimistic one and the final one of likePost.
TreeFns ==
    {[NoFn EXCEPT !.fn = "performUpdate", !.kind = "like"],
     [NoFn EXCEPT !.fn = "finalUpdate", !.kind = "like", !.ref = Ref(1),
                  !.likers = <<[did |-> Me]>>]}

\* The input is one tree, held in threadFocused, or one list of trees, held in
\* threadReplies.
TreeInit ==
    /\ props = Props(ThreadMode, Undefined, Undefined, Undefined, ThreadRootUri)
    /\ agent = TRUE
    /\ currentUser = NULL
    /\ posts = <<>> /\ loading = FALSE /\ error = NoError
    /\ cursorRef = Undefined /\ hasMore = TRUE
    /\ threadAncestors = <<>>
    /\ \/ /\ threadFocused \in UNION {TreesOfSize(n) : n \in 1..MaxNodes}
          /\ threadReplies = <<>>
       \/ /\ threadFocused = NULL
          /\ threadReplies \in UNION {ForestsOfSize(n) : n \in 0..MaxNodes}
    /\ threadLoading = FALSE /\ threadError = NoError
    /\ timer = NULL
    /\ toggles = <<>> /\ feedReqs = <<>> /\ threadReqs = <<>>
    /\ srv = SrvInit(0, FALSE, FALSE)
    /\ nextRef = 1
    /\ awaited = <<>>
    /\ budget = MaxActions
    /\ lastCall = NoCall
    /\ trip = NoTrip
    /\ mounted = TRUE

\* The thread arm of the handlers' state update:
\* setThreadFocused(prev => updateThreadNode(prev, uri, fn)), and the same for
\* the ancestors and the replies.
TreeApply ==
    /\ lastCall = NoCall
    /\ UNCHANGED mounted
    /\ \E u \in Uris, f \in TreeFns :
         /\ ApplyToView(ThreadMode, u, f)
         /\ lastCall' = Call("updateThreadNode", "", u, f, props, "")
    /\ UNCHANGED <<props, agent, currentUser, loading, error, cursorRef, hasMore,
                   threadLoading, threadError, timer, toggles, feedReqs, threadReqs,
                   srv, nextRef, awaited, budget, trip>>

TreeNext == TreeApply

TreeSpec == TreeInit /\ [][TreeNext]_vars

\* ---------------------------------------- normalizePost alone: NormalizeSpec
\* Raw nodes assembled from a post (with or without uri, replying or not), an
\* embed and a wrapper.
RawAuthor == [did |-> Other, handle |-> Bob]
QuotedRecord == [uri |-> "q", cid |-> CidOf("q"), author |-> RawAuthor]
ImagesEmbed ==
    [type |-> ImagesView, images |-> <<[fullsize |-> "full.jpg", thumb |-> "thumb.jpg",
                                        alt |-> "alt"]>>]
VideoEmbed ==
    [type |-> VideoView, playlist |-> "video.m3u8", thumbnail |-> "thumb.jpg",
     alt |-> "alt", cid |-> "cid:video"]
\* NULL stands for a post without embed; the last two embeds are tagged as
\* record with media and as external view and lack the field of their tag.
EmbedSet ==
    {NULL, ImagesEmbed, VideoEmbed,
     [type |-> RecordView, record |-> QuotedRecord],
     [type |-> RecordView,
      record |-> [type |-> "app.bsky.embed.record#viewNotFound", uri |-> "q"]],
     [type |-> RecordWithMediaView, record |-> [record |-> QuotedRecord],
      media |-> ImagesEmbed],
     [type |-> RecordWithMediaView, record |-> [record |-> QuotedRecord],
      media |-> VideoEmbed],
     [type |-> ExternalView,
      external |-> [uri |-> "https://example.test", title |-> "title",
                    thumb |-> "thumb.jpg"]],
     [type |-> RecordWithMediaView, media |-> ImagesEmbed],
     [type |-> ExternalView]}

RawPost(u, embed, replying) ==
    LET record == IF replying
                  THEN [createdAt |-> "t:" \o u, reply |-> [parent |-> [uri |-> "p"]]]
                  ELSE [createdAt |-> "t:" \o u]
        base == [ServerPost(SrvInit(0, FALSE, FALSE), "a") EXCEPT !.uri = u]
                    @@ [record |-> record]
    IN IF embed = NULL THEN base ELSE base @@ [embed |-> embed]

Wrappers ==
    {"bare", "item", "repost", "repostNoBy", "pinned", "reply", "repostReply", "thread"}
RepostReasonOf == [type |-> ReasonRepost, by |-> RawAuthor, indexedAt |-> "t:repost"]
Wrap(wrapper, post, embed) ==
    LET parentPost == RawPost("p", embed, FALSE)
        replyRef == [parent |-> parentPost, root |-> parentPost]
    IN CASE wrapper = "bare" -> post
         [] wrapper = "item" -> [post |-> post]
         [] wrapper = "repost" -> [post |-> post, reason |-> RepostReasonOf]
         [] wrapper = "repostNoBy" ->
              [post |-> post, reason |-> [type |-> ReasonRepost]]
         [] wrapper = "pinned" ->
              [post |-> post, reason |-> [type |-> "app.bsky.feed.defs#reasonPin"]]
         [] wrapper = "reply" -> [post |-> post, reply |-> replyRef]
         [] wrapper = "repostReply" ->
              [post |-> post, reason |-> RepostReasonOf, reply |-> replyRef]
         [] wrapper = "thread" ->
              [post |-> post,
               parent |-> [post |-> parentPost, replies |-> <<>>],
               replies |-> << [post |-> RawPost("b", embed, TRUE),
                               replies |-> << [post |-> RawPost("c", NULL, TRUE),
                                               replies |-> <<>>] >>],
                              NotFoundNode("x1", NULL) >>]
RawNodeSet ==
    {Wrap(w, RawPost(u, embed, replying), embed) :
        w \in Wrappers, u \in {"a", Undefined}, embed \in EmbedSet,
        replying \in BOOLEAN} \cup {NULL}

\* The raw node about to be normalized is the argument of the pending call.
NormalizeInit ==
    /\ props = Props(FlatMode, Undefined, Undefined, Undefined, Undefined)
    /\ agent = TRUE
    /\ currentUser = NULL
    /\ posts = <<>> /\ loading = FALSE /\ error = NoError
    /\ cursorRef = Undefined /\ hasMore = TRUE
    /\ threadAncestors = <<>> /\ threadFocused = NULL /\ threadReplies = <<>>
    /\ threadLoading = FALSE /\ threadError = NoError
    /\ timer = NULL
    /\ toggles = <<>> /\ feedReqs = <<>> /\ threadReqs = <<>>
    /\ srv = SrvInit(0, FALSE, FALSE)
    /\ nextRef = 1
    /\ awaited = <<>>
    /\ budget = MaxActions
    /\ \E x \in RawNodeSet : lastCall = [NoCall EXCEPT !.arg = x]
    /\ trip = NoTrip
    /\ mounted = TRUE

\* normalizePost(x), and normalizePost applied to what it returned.
NormalizeApply ==
    /\ lastCall.op = ""
    /\ UNCHANGED mounted
    /\ LET x == lastCall.arg
           once == normalizePost(x)
       IN lastCall' = Call("normalizePost", "", "",
                           [input |-> x, result |-> once,
                            again |-> IF once = Thrown THEN Thrown
                                      ELSE normalizePost(once)],
                           props, "")
    /\ UNCHANGED <<props, agent, currentUser, posts, loading, error, cursorRef, hasMore,
                   threadAncestors, threadFocused, threadReplies, threadLoading,
                   threadError, timer, toggles, feedReqs, threadReqs, srv, nextRef, awaited,
                   budget, trip>>

NormalizeNext == NormalizeApply

NormalizeSpec == NormalizeInit /\ [][NormalizeNext]_vars

\* ---------------------------------------------- createEmbed alone: EmbedSpec
\* Uploaded images with and without alt text, up to MaxImages of them, and
\* quote references that are given, empty or missing.
UploadedImageSet == {[blob |-> "blob:1", alt |-> "a cat"], [blob |-> "blob:2"]}
RECURSIVE SeqsUpTo(_, _)
SeqsUpTo(S, n) ==
    IF n = 0 THEN {<<>>}
    ELSE SeqsUpTo(S, n - 1)
           \cup {Append(s, x) : s \in {q \in SeqsUpTo(S, n - 1) : Len(q) = n - 1}, x \in S}
QuoteUriSet == {Undefined, "", "at://did:plc:alice/app.bsky.feed.post/q"}
QuoteCidSet == {Undefined, "", "cid:q"}

\* The arguments of the pending createEmbed call are the argument of lastCall.
EmbedInit ==
    /\ props = Props(FlatMode, Undefined, Undefined, Undefined, Undefined)
    /\ agent = TRUE
    /\ currentUser = NULL
    /\ posts = <<>> /\ loading = FALSE /\ error = NoError
    /\ cursorRef = Undefined /\ hasMore = TRUE
    /\ threadAncestors = <<>> /\ threadFocused = NULL /\ threadReplies = <<>>
    /\ threadLoading = FALSE /\ threadError = NoError
    /\ timer = NULL
    /\ toggles = <<>> /\ feedReqs = <<>> /\ threadReqs = <<>>
    /\ srv = SrvInit(0, FALSE, FALSE)
    /\ nextRef = 1
    /\ awaited = <<>>
    /\ budget = MaxActions
    /\ \E imgs \in SeqsUpTo(UploadedImageSet, MaxImages),
          quoteUri \in QuoteUriSet, quoteCid \in QuoteCidSet :
         lastCall = [NoCall EXCEPT !.arg = [uploadedImages |-> imgs,
                                            quoteUri |-> quoteUri,
                                            quoteCid |-> quoteCid]]
    /\ trip = NoTrip
    /\ mounted = TRUE

\* createPost: `const embed = createEmbed(uploadedBlobs, quoteUri, quoteCid)`
EmbedApply ==
    /\ lastCall.op = ""
    /\ UNCHANGED mounted
    /\ LET in == lastCall.arg
       IN lastCall' = Call("createEmbed", "", "",
                           [input |-> in,
                            result |-> createEmbed(in.uploadedImages, in.quoteUri,
                                                   in.quoteCid)],
                           props, "")
    /\ UNCHANGED <<props, agent, currentUser, posts, loading, error, cursorRef, hasMore,
                   threadAncestors, threadFocused, threadReplies, threadLoading,
                   threadError, timer, toggles, feedReqs, threadReqs, srv, nextRef, awaited,
                   budget, trip>>

EmbedNext == EmbedApply

EmbedSpec == EmbedInit /\ [][EmbedNext]_vars

\* ------------------------------ fetchFeedImpl in search mode alone: SearchSpec
\* The posts a search response may hold: with and without uri, with and without
\* an embed, replies to another post or not.
RawSearchPosts ==
    {RawPost(u, embed, replying) :
        u \in {"a", "b", Undefined},
        embed \in {NULL, ImagesEmbed, [type |-> RecordView, record |-> QuotedRecord]},
        replying \in BOOLEAN}

\* The `data` of the searchPosts response is the argument of the pending call.
SearchInit ==
    /\ props = Props("search", Undefined, Undefined, Cats, Undefined)
    /\ agent = TRUE
    /\ currentUser = NULL
    /\ posts = <<>> /\ loading = FALSE /\ error = NoError
    /\ cursorRef = Undefined /\ hasMore = TRUE
    /\ threadAncestors = <<>> /\ threadFocused = NULL /\ threadReplies = <<>>
    /\ threadLoading = FALSE /\ threadError = NoError
    /\ timer = NULL
    /\ toggles = <<>> /\ feedReqs = <<>> /\ threadReqs = <<>>
    /\ srv = SrvInit(0, FALSE, FALSE)
    /\ nextRef = 1
    /\ awaited = <<>>
    /\ budget = MaxActions
    /\ \E found \in SeqsUpTo(RawSearchPosts, MaxResults),
          cursor \in {Undefined, "cursor:2"} :
         lastCall = [NoCall EXCEPT !.arg = [posts |-> found, cursor |-> cursor]]
    /\ trip = NoTrip
    /\ mounted = TRUE

\* fetchFeedImpl, the search arm after `await searchPosts` and the return.
SearchApply ==
    /\ lastCall.op = ""
    /\ UNCHANGED mounted
    /\ LET data == lastCall.arg
       IN lastCall' = Call("fetchFeedImpl", "", "",
                           [input |-> data,
                            result |-> fetchFeedImpl([feed |-> WrapSearch(data.posts),
                                                      cursor |-> data.cursor])],
                           props, "")
    /\ UNCHANGED <<props, agent, currentUser, posts, loading, error, cursorRef, hasMore,
                   threadAncestors, threadFocused, threadReplies, threadLoading,
                   threadError, timer, toggles, feedReqs, threadReqs, srv, nextRef, awaited,
                   budget, trip>>

SearchNext == SearchApply

SearchSpec == SearchInit /\ [][SearchNext]_vars

\* ================================================================ claims
\* Helpers for the claims.
IsToggleStartStep == Len(toggles') = Len(toggles) + 1
NewToggle == toggles'[Len(toggles')]
IsRef(v) == v # Undefined /\ v # Pending
Max0(n) == IF n > 0 THEN n ELSE 0

\* The target of a handler as the view of `mode` holds it (first occurrence),
\* in the current state and in the next one.
TargetIn(mode, uri) ==
    LocateIn(mode, threadFocused, threadAncestors, threadReplies, posts, uri)
TargetNext(mode, uri) ==
    LocateIn(mode, threadFocused', threadAncestors', threadReplies', posts', uri)

\* C1: in the step in which likePost / repostPost issues its remote create or
\* delete call (the toggle becomes in flight), the target in the active view
\* already shows the optimistic marker: 'pending' for a create, absent for a
\* delete, whatever it showed before.
C1_OptimisticBeforeRemoteCall ==
    [][IsToggleStartStep =>
         LET t == NewToggle
             before == TargetIn(props.mode, t.uri)
             after == TargetNext(props.mode, t.uri)
         IN before # NULL =>
              /\ after # NULL
              /\ after.post.viewer[t.kind] = IF t.stage = "delete" THEN Undefined ELSE Pending
              /\ after # before]_vars

\* C1 witness: a create call is in flight and its target shows 'pending'.
C1_Witness ==
    \E i \in DOMAIN toggles :
       /\ toggles[i].stage = "create"
       /\ TargetIn(props.mode, toggles[i].uri) # NULL
       /\ TargetIn(props.mode, toggles[i].uri).post.viewer[toggles[i].kind] = Pending

\* C2: the optimistic transform changes the target as follows: viewer state
\* absent -> count + 1 and 'pending'; viewer state a reference -> max(0, count - 1)
\* and absent; the other kind's count and viewer state are untouched.
C2_OptimisticTransform ==
    [][IsToggleStartStep =>
         LET t == NewToggle
             other == IF t.kind = "like" THEN "repost" ELSE "like"
             before == TargetIn(props.mode, t.uri)
             after == TargetNext(props.mode, t.uri)
             was == before.post.viewer[t.kind]
             n == before.post[CountField(t.kind)]
         IN before # NULL =>
              /\ was = Undefined =>
                   /\ after.post[CountField(t.kind)] = n + 1
                   /\ after.post.viewer[t.kind] = Pending
              /\ IsRef(was) =>
                   /\ after.post[CountField(t.kind)] = Max0(n - 1)
                   /\ after.post.viewer[t.kind] = Undefined
              /\ after.post[CountField(other)] = before.post[CountField(other)]
              /\ after.post.viewer[other] = before.post.viewer[other]]_vars

\* C2 witness: a delete call is in flight for a target that held a reference
\* and now shows absent with a count of zero.
C2_Witness ==
    \E i \in DOMAIN toggles :
       /\ toggles[i].stage = "delete"
       /\ IsRef(toggles[i].existing)
       /\ TargetIn(props.mode, toggles[i].uri) # NULL
       /\ TargetIn(props.mode, toggles[i].uri).post.viewer[toggles[i].kind] = Undefined
       /\ TargetIn(props.mode, toggles[i].uri).post[CountField(toggles[i].kind)] = 0

\* C3: when the remote create call of a toggle has succeeded and the handler
\* has finished (for a like: after the likers fetch resolved or rejected), the
\* target holds the reference the create call returned, not 'pending'.
C3_CreateSuccessSetsRef ==
    (\/ lastCall.op = "createOk" /\ lastCall.kind = "repost"
     \/ lastCall.op \in {"likersOk", "fail"} /\ lastCall.stage = "likers")
    => LET target == TargetIn(lastCall.props.mode, lastCall.uri)
       IN target # NULL => target.post.viewer[lastCall.kind] = lastCall.arg

\* C4: after a successful remote deletion the target's viewer.<kind> is absent
\* and, for a like, its likers list has no entry with the viewer's did.
C4_DeleteClearsViewerAndLikers ==
    lastCall.op = "deleteOk"
    => LET target == TargetIn(lastCall.props.mode, lastCall.uri)
       IN target # NULL =>
            /\ target.post.viewer[lastCall.kind] = Undefined
            /\ lastCall.kind = "like" =>
                 \A k \in DOMAIN target.likers : target.likers[k].did # Me

\* C5: a failure of any awaited call of likePost / repostPost starts the
\* retrieval of the view the handler ran in -- fetchThread (a request for the
\* handler's threadUri, if it has one) in thread mode, a first-page fetchFeed
\* otherwise -- and patches neither posts nor the thread buckets.
C5_FailureRefetchesActiveView ==
    [][lastCall'.op = "fail" =>
         /\ posts' = posts
         /\ threadFocused' = threadFocused
         /\ threadAncestors' = threadAncestors
         /\ threadReplies' = threadReplies
         /\ IF lastCall'.props.mode = ThreadMode
            THEN /\ feedReqs' = feedReqs /\ loading' = loading
                 /\ IF lastCall'.props.threadUri = Undefined
                    THEN threadReqs' = threadReqs
                    ELSE /\ threadReqs' = Append(threadReqs,
                                             [uri |-> lastCall'.props.threadUri])
                         /\ threadLoading'
            ELSE /\ Len(feedReqs') = Len(feedReqs) + 1
                 /\ SubSeq(feedReqs', 1, Len(feedReqs)) = feedReqs
                 /\ ~feedReqs'[Len(feedReqs')].loadMore
                 /\ feedReqs'[Len(feedReqs')].cursor = Undefined
                 /\ loading'
                 /\ threadReqs' = threadReqs]_vars

\* C5 witness: the likers fetch of a like failed in thread mode and a thread
\* request is in flight.
C5_Witness ==
    /\ lastCall.op = "fail" /\ lastCall.stage = "likers"
    /\ lastCall.props.mode = ThreadMode
    /\ threadReqs # <<>> /\ threadLoading

\* Every node of the caller-visible state, at any depth.
RECURSIVE NodesOf(_), NodesOfList(_)
NodesOf(node) == IF node = NULL THEN {} ELSE {node} \cup NodesOfList(node.replies)
NodesOfList(list) ==
    IF list = <<>> THEN {} ELSE NodesOf(Head(list)) \cup NodesOfList(Tail(list))
VisibleNodes ==
    NodesOfList(posts) \cup NodesOf(threadFocused)
        \cup NodesOfList(threadAncestors) \cup NodesOfList(threadReplies)
Quiescent == timer = NULL /\ toggles = <<>> /\ feedReqs = <<>> /\ threadReqs = <<>>

ActiveNodes ==
    IF props.mode = ThreadMode
    THEN NodesOf(threadFocused) \cup NodesOfList(threadAncestors)
            \cup NodesOfList(threadReplies)
    ELSE NodesOfList(posts)

\* C6: after a like / repost whose commit step failed, the local view ends up
\* agreeing with the service: once the revert refetch has been answered and
\* nothing is in flight, no post of the active view (one that has something to
\* retrieve: a flat mode, or thread mode with a threadUri) still shows the
\* 'pending' value, which the service never reports.
C6_NoPendingLeftAfterRevert ==
    (Quiescent /\ (props.mode = ThreadMode => props.threadUri # Undefined)) =>
       \A node \in ActiveNodes :
          node.post.viewer.like # Pending /\ node.post.viewer.repost # Pending

\* C7: like round trip: a post found with viewer.like absent and likeCount n,
\* liked (committed) and then liked again (committed), with no refetch and no
\* other like on it in between, shows likeCount n and viewer.like absent.
C7_LikeRoundTrip ==
    trip.stage = 4 =>
       LET target == TargetIn(props.mode, trip.uri)
       IN /\ target # NULL
          /\ target.post.likeCount = trip.n
          /\ target.post.viewer.like = Undefined

\* C7 witness: a round trip has completed on a post that started with a
\* positive likeCount.
C7_Witness == trip.stage = 4 /\ trip.n > 0

\* C8: likeCount and repostCount of every post in posts and in the thread
\* buckets, at any depth, are never negative.
C8_CountsNonNegative ==
    \A node \in VisibleNodes : node.post.likeCount >= 0 /\ node.post.repostCount >= 0

\* C8 witness: an un-like / un-repost is in flight on a post whose count was 0
\* (the service still reports 0 and a record) and the local count is 0.
C8_Witness ==
    \E i \in DOMAIN toggles :
       LET t == toggles[i]
           target == TargetIn(t.props.mode, t.uri)
       IN /\ t.stage = "delete"
          /\ srv[t.uri][t.kind] = t.existing
          /\ srv[t.uri][CountField(t.kind)] = 0
          /\ target # NULL
          /\ target.post[CountField(t.kind)] = 0

\* C9: a likePost / repostPost that finds 'pending' on its target is handled
\* neither as the absent case (a create with a count increment) nor as the
\* committed case (a delete).
C9_PendingIsDistinguished ==
    [][IsToggleStartStep =>
         LET t == NewToggle
             before == TargetIn(props.mode, t.uri)
             after == TargetNext(props.mode, t.uri)
         IN (before # NULL /\ before.post.viewer[t.kind] = Pending) =>
              /\ ~(t.stage = "create"
                   /\ after.post[CountField(t.kind)] = before.post[CountField(t.kind)] + 1)
              /\ t.stage # "delete"]_vars

\* C10: a likePost / repostPost without an agent, or with no cid passed (none,
\* or an empty one) and the target not in the active view, changes nothing: no
\* state, no request, no error.
C10_NoCidOrNoAgentIsNoOp ==
    [][(/\ lastCall'.op = "start"
        /\ \/ ~agent
           \/ /\ ~Truthy(lastCall'.arg)
              /\ TargetIn(props.mode, lastCall'.uri) = NULL)
       => UNCHANGED <<props, agent, currentUser, view, inflight, srv, nextRef, awaited>>]_vars

\* C10 witness: with a session, a toggle was invoked without cid on a post that
\* is not in the active view, and nothing is in flight.
C10_Witness ==
    /\ lastCall.op = "start" /\ lastCall.arg = Undefined
    /\ agent
    /\ TargetIn(props.mode, lastCall.uri) = NULL
    /\ toggles = <<>>
    /\ posts # <<>>


\* ----------------------------------------------------- claims on FeedSpec
\* The uri of an item of posts; a null item reads as an entry without uri.
UriOf(item) == IF item = NULL THEN NoUriEntry ELSE item.post.uri
UrisOf(list) == [i \in DOMAIN list |-> UriOf(list[i])]
\* The pages of the source a request reads, and their first k pages in a row.
SourcePages(req) ==
    CASE req.call = "getTimeline" -> ServerPages
      [] req.call = "getAuthorFeed" -> AuthorPages(req.key)
      [] req.call = "getFeed" -> FeedPages(req.key)
      [] req.call = "searchPosts" -> SearchPages(req.key)
      [] OTHER -> <<>>
RECURSIVE FirstPages(_, _)
FirstPages(pages, k) == IF k = 0 THEN <<>> ELSE FirstPages(pages, k - 1) \o pages[k]
NoDuplicateUris(list) ==
    \A i, j \in DOMAIN list :
       (i # j /\ list[i] # NULL /\ list[j] # NULL) => list[i].post.uri # list[j].post.uri

\* C11: no invocation of likePost / repostPost (nor of the fetchers) lets an
\* exception escape to its caller: no step ends with the handler throwing.
C11_NoExceptionEscapes == lastCall.op # "throw"

\* The sources of the service, each with disjoint pages in server order.
FeedSources ==
    {ServerPages, AuthorPages(Alice), AuthorPages(Bob), SearchPages(Cats),
     FeedPages(DISCOVER_FEED_URI), FeedPages(HotFeedUri)}
\* The uris of `list` are uris of the source, each once, in the order the source
\* gives them.
InServerOrder(list, pages) ==
    LET all == FirstPages(pages, Len(pages))
    IN SeqFilter(all, [i \in DOMAIN all |->
                         \E j \in DOMAIN list : UriOf(list[j]) = all[i]]) = UrisOf(list)

\* C12: pagination accumulates the pages of the source in order and without
\* duplicates: whatever was fetched and loaded, posts holds no uri twice and
\* holds the uris of one source in the order the service gives them.
C12_PaginationAccumulates ==
    /\ NoDuplicateUris(posts)
    /\ \E pages \in FeedSources : InServerOrder(posts, pages)

\* C13: an absent cursor ends the stream. A page that lands without a cursor
\* clears the stored cursor and leaves hasMore false; while hasMore is false
\* loadMore issues no request; and hasMore turns true again only when the feed
\* parameters change or a page lands with a cursor. (Once the tree is
\* unmounted there is no hasMore to set and no loadMore to call: no load-more
\* request is issued then.)
C13_AbsentCursorEndsStream ==
    [][/\ (lastCall'.op = "feedOk" /\ Upstream(srv, lastCall'.arg).cursor = Undefined)
            => /\ cursorRef' = Undefined
               /\ mounted => ~hasMore'
       /\ (lastCall'.op = "loadMore" /\ ~hasMore)
            => /\ lastCall'.arg = "skipped"
               /\ feedReqs' = feedReqs /\ threadReqs' = threadReqs
               /\ posts' = posts /\ loading' = loading
       /\ (~hasMore /\ hasMore')
            => \/ PaginationKey(props') # PaginationKey(props)
               \/ lastCall'.op = "feedOk" /\ Truthy(cursorRef')
       /\ (~mounted /\ Len(feedReqs') > Len(feedReqs))
            => ~feedReqs'[Len(feedReqs')].loadMore]_vars

\* C13 witness: the last page has landed, and a loadMore call was just ignored.
C13_Witness ==
    /\ lastCall.op = "loadMore" /\ lastCall.arg = "skipped"
    /\ ~hasMore /\ ~loading /\ cursorRef = Undefined
    /\ posts # <<>> /\ feedReqs = <<>>

\* The trigger's timeout fires in this step.
IsTimerFire == timer # NULL /\ lastCall'.op = "fetchFeed"
\* A page fetch completes in this step: a response lands, or fetchFeedImpl
\* resolves at once with the empty page because the mode lacks its input.
PageFetchCompleted ==
    \/ lastCall'.op \in {"feedOk", "resolveFail"}
    \/ IsTimerFire /\ FirstCall(timer.props, timer.agent).do = "done"
    \/ /\ lastCall'.op = "loadMore" /\ lastCall'.arg = "fetch"
       /\ FirstCall(props, agent).do = "done"
    \/ /\ lastCall'.op \in {"fail", "postOk"} /\ lastCall'.props.mode # ThreadMode
       /\ FirstCall(lastCall'.props, TRUE).do = "done"
\* The cursor the fetch completing in this step returned.
ReturnedCursor ==
    IF lastCall'.op = "feedOk"
    THEN PageOf(srv, SourcePages(lastCall'.arg), lastCall'.arg.cursor).cursor
    ELSE Undefined
\* What is sent and what is stored: a request of a loadMore fetch carries the
\* stored cursor as it is and any other request carries none; a fetch that
\* completes stores the cursor its page came with, unchanged.
CursorSentAndStored ==
    /\ Len(feedReqs') = Len(feedReqs) + 1
         => LET new == feedReqs'[Len(feedReqs')]
            IN new.cursor = IF new.loadMore THEN cursorRef ELSE Undefined
    /\ PageFetchCompleted => cursorRef' = ReturnedCursor
\* "Reset pagination when key props change" runs in this step.
PaginationReset ==
    lastCall'.op = "setProps" /\ PaginationKey(props') # PaginationKey(props)

\* C14: cursors are forwarded verbatim. The cursor a loadMore request sends is
\* the stored one, and the stored one is exactly the cursor returned by the most
\* recently completed page fetch: a completed fetch stores the upstream cursor
\* and nothing else ever changes what is stored.
C14_CursorsForwardedVerbatim ==
    [][/\ CursorSentAndStored
       /\ cursorRef' # cursorRef => PageFetchCompleted]_vars

\* C14 as amended: the cursor a loadMore request sends is exactly the cursor
\* returned by the most recently completed page fetch, or none when mode,
\* actor, feedUrl or searchQuery changed since that fetch completed: a
\* completed fetch stores the upstream cursor, a change of one of these four
\* props clears what is stored, and nothing else changes it.
C14_CursorsForwardedUnlessReset ==
    [][/\ CursorSentAndStored
       /\ PaginationReset => cursorRef' = Undefined
       /\ cursorRef' # cursorRef => PageFetchCompleted \/ PaginationReset]_vars

\* C14 witness: a loadMore request is in flight with the cursor the first page
\* returned.
C14_Witness ==
    \E i \in DOMAIN feedReqs :
       /\ feedReqs[i].loadMore
       /\ feedReqs[i].cursor = CursorOf(SourcePages(feedReqs[i]), 1)
       /\ feedReqs[i].cursor # Undefined
       /\ cursorRef = feedReqs[i].cursor

\* C15: the posts list never holds a null element, whatever the raw entries.
C15_NoNullInPosts == \A i \in DOMAIN posts : posts[i] # NULL

\* The steps in which fetchFeed is invoked: the trigger's timeout fires, loadMore
\* passes its guard, or a failed like / repost refetches.
PreconditionUnmet(q, ag) ==
    \/ q.mode = "author" /\ q.actor \in {Undefined, ""}
    \/ q.mode = "search" /\ q.searchQuery \in {Undefined, ""}
    \/ q.mode = "timeline" /\ ~ag
\* No request is issued and the empty page is stored: an empty list (nothing
\* appended for a loadMore), no cursor, hasMore false, no error. Once the tree is
\* unmounted only the cursor ref is left to write.
EmptyPageLanded(loadMore) ==
    /\ feedReqs' = feedReqs
    /\ cursorRef' = Undefined
    /\ IF mounted
       THEN /\ posts' = (IF loadMore THEN posts ELSE <<>>)
            /\ ~hasMore'
            /\ error' = NoError /\ ~loading'
       ELSE UNCHANGED <<posts, hasMore, error, loading>>

\* C16: a feed fetch whose mode lacks its input (author without actor, search
\* without query, timeline without session) issues no remote call, yields an
\* empty page with no cursor and records no error.
C16_UnmetPreconditionIsEmptyPage ==
    [][/\ (IsTimerFire /\ PreconditionUnmet(timer.props, timer.agent))
            => EmptyPageLanded(FALSE)
       /\ (lastCall'.op = "loadMore" /\ lastCall'.arg = "fetch"
             /\ PreconditionUnmet(props, agent))
            => EmptyPageLanded(TRUE)
       /\ (lastCall'.op \in {"fail", "postOk"} /\ PreconditionUnmet(lastCall'.props, TRUE))
            => EmptyPageLanded(FALSE)]_vars

\* C16 witness: signed in, author mode without an actor, the fetch has run and
\* left an empty list, no cursor and no error.
C16_Witness ==
    /\ props.mode = "author" /\ props.actor = Undefined /\ agent
    /\ timer = NULL /\ feedReqs = <<>> /\ ~loading
    /\ posts = <<>> /\ ~hasMore /\ cursorRef = Undefined /\ error = NoError
    /\ budget < MaxActions

\* C17: in feed mode, when the feed URL does not resolve to a canonical address,
\* no feed request is issued and the error state holds a displayable
\* invalid-feed message.
C17_UnresolvableFeedSetsError ==
    [][/\ (/\ IsTimerFire /\ timer.props.mode = "feed"
           /\ ResolveStart(timer.agent, RawFeedUrl(timer.props)).do = "return"
           /\ ResolveStart(timer.agent, RawFeedUrl(timer.props)).uri = NoResult)
            => feedReqs' = feedReqs /\ error' # NoError
       /\ lastCall'.op = "resolveFail"
            => Len(feedReqs') < Len(feedReqs) /\ error' # NoError]_vars

\* -------------------------------------------------- claims on ResolveSpec
\* A URL assembled from parts has the profile/<identifier>/feed/<rkey> shape
\* when the identifier and the key are not empty and "/feed/" stands between.
HasFeedShape(parts) ==
    parts.identifier # "" /\ parts.mid = "/feed/" /\ parts.feedId # ""
Resolved(uri, calls) == [uri |-> uri, calls |-> calls]

\* C18: resolveFeedUri returns an at:// address as it is, without a remote call;
\* for a profile/feed URL it makes one agent.resolveHandle call when the owner
\* is not a did (and a session exists) and none when it is a did; for an empty
\* or unrecognised URL, a rejected resolution or a missing agent it returns null.
C18_ResolveFeedUri ==
    lastCall.op = "resolveFeedUri" =>
      LET url == lastCall.uri
          r == lastCall.arg.result
          answer == lastCall.arg.answer
      IN /\ (url \in {DISCOVER_FEED_URI, HotFeedUri, "at://"}) => r = Resolved(url, 0)
         /\ (url \in {"", JunkFeedUrl}) => r = Resolved(NoResult, 0)
         /\ \A parts \in UrlParts :
              url = UrlOf(parts) =>
                IF ~HasFeedShape(parts) THEN r = Resolved(NoResult, 0)
                ELSE IF parts.identifier = AliceDid
                     THEN r = Resolved("at://did:plc:alice/app.bsky.feed.generator/hot", 0)
                ELSE IF ~agent THEN r = Resolved(NoResult, 0)
                ELSE IF answer = Undefined THEN r = Resolved(NoResult, 1)
                ELSE r = Resolved("at://did:plc:alice/app.bsky.feed.generator/hot", 1)

\* C18 witness: a URL with a handle was resolved with one remote call.
C18_Witness ==
    /\ lastCall.op = "resolveFeedUri"
    /\ lastCall.uri = HotFeedUrl
    /\ lastCall.arg.result = Resolved(HotFeedUri, 1)

\* --------------------------------------------------- claims on ThreadSpec
PostNotFound == "Post not found or blocked"

\* C19: whenever threadFocused is null, threadAncestors and threadReplies are
\* empty; and a thread response whose root has no post, or a post without uri,
\* leaves exactly ancestors = [], focused = null, replies = [].
C19_FocusedNullMeansEmpty ==
    /\ [](threadFocused = NULL => (threadAncestors = <<>> /\ threadReplies = <<>>))
    /\ [][(lastCall'.op = "threadOk"
             /\ lastCall'.arg.uri \in {GoneThreadUri, NoUriThreadUri})
          => /\ threadAncestors' = <<>>
             /\ threadFocused' = NULL
             /\ threadReplies' = <<>>]_vars

\* C19 witness: after another thread had been shown, the response for a root
\* whose post has no uri (it has a parent and a reply) emptied the three buckets.
C19_Witness ==
    /\ lastCall.op = "threadOk" /\ lastCall.arg.uri = NoUriThreadUri
    /\ threadFocused = NULL /\ threadAncestors = <<>> /\ threadReplies = <<>>
    /\ threadError = PostNotFound
    /\ budget < MaxActions

\* The parent chains of the threads of the service, oldest post first, the
\* nodes without a post left out.
ExpectedAncestors(uri) ==
    IF uri = DeepThreadUri THEN <<"p", "a">> ELSE <<"p">>

\* C20: after a successful thread fetch threadAncestors holds exactly the nodes
\* of the parent chain that carry a post, oldest first and nearest parent last;
\* a chain node without a post is skipped and the walk goes on past it.
C20_AncestorsOldestFirst ==
    [][(lastCall'.op = "threadOk"
          /\ lastCall'.arg.uri \in {ThreadRootUri, DeepThreadUri})
       => /\ UrisOf(threadAncestors') = ExpectedAncestors(lastCall'.arg.uri)
          /\ \A k \in DOMAIN threadAncestors' :
               threadAncestors'[k].post = ServerPost(srv, threadAncestors'[k].post.uri)]_vars

\* C20 witness: the thread whose chain has two posts and two nodes without a
\* post has landed.
C20_Witness ==
    /\ lastCall.op = "threadOk" /\ lastCall.arg.uri = DeepThreadUri
    /\ UrisOf(threadAncestors) = <<"p", "a">>
    /\ threadFocused # NULL /\ threadFocused.post.uri = DeepThreadUri

\* --------------------------------------------- null entries in the thread
RECURSIVE HasNull(_)
HasNull(list) ==
    \E i \in DOMAIN list : list[i] = NULL \/ HasNull(list[i].replies)

\* C21: after a successful thread fetch no null entry is in threadAncestors, in
\* threadReplies or in the replies of any node, at any depth, also when a node
\* of the response carries a post without a uri.
C21_NoNullInThread ==
    /\ ~HasNull(threadAncestors)
    /\ ~HasNull(threadReplies)
    /\ threadFocused # NULL => ~HasNull(threadFocused.replies)

\* C22: a rejected thread request sets threadError to a message that is not the
\* one of the not-found outcome, leaves threadAncestors, threadFocused and
\* threadReplies as they were, and so never ends in the state a not-found
\* response produces (that message over three emptied buckets).
C22_TransportFailureIsDistinct ==
    [][lastCall'.op = "threadFail"
       => /\ threadError' \notin {NoError, PostNotFound}
          /\ UNCHANGED <<threadAncestors, threadFocused, threadReplies>>
          /\ ~(/\ threadError' = PostNotFound
               /\ threadAncestors' = <<>>
               /\ threadFocused' = NULL
               /\ threadReplies' = <<>>)]_vars

\* C22 witness: a request failed while a thread was on display; the thread is
\* still there, under the error.
C22_Witness ==
    /\ lastCall.op = "threadFail"
    /\ threadFocused # NULL /\ threadAncestors # <<>> /\ threadReplies # <<>>
    /\ threadError = "Failed to fetch thread"

\* ---------------------------------------------------- claims on TreeSpec
\* How often a uri occurs in a list of trees.
RECURSIVE Occurrences(_, _)
Occurrences(list, u) ==
    IF list = <<>> THEN 0
    ELSE (IF Head(list) = NULL THEN 0
          ELSE (IF Head(list).post.uri = u THEN 1 ELSE 0)
               + Occurrences(Head(list).replies, u))
         + Occurrences(Tail(list), u)
AsList(tree) == <<tree>>

\* The nodes of a list of trees in document order, each without its replies and
\* with its depth: the list of trees is determined by this sequence.
RECURSIVE Flat(_, _)
Flat(list, depth) ==
    IF list = <<>> THEN <<>>
    ELSE (IF Head(list) = NULL THEN <<[node |-> NULL, depth |-> depth]>>
          ELSE <<[node |-> [Head(list) EXCEPT !.replies = <<>>], depth |-> depth]>>
               \o Flat(Head(list).replies, depth + 1))
         \o Flat(Tail(list), depth)

\* What the transform makes of a node's own content (post and likers).
Transformed(f, node) == [ApplyFn(f, node) EXCEPT !.replies = <<>>]

\* The result differs from the input in the node at u and nowhere else.
OnlyNodeAtChanged(before, after, u, f) ==
    LET x == Flat(before, 0)
        y == Flat(after, 0)
    IN /\ Len(y) = Len(x)
       /\ \A k \in DOMAIN x :
            /\ y[k].depth = x[k].depth
            /\ y[k].node = IF x[k].node # NULL /\ x[k].node.post.uri = u
                            THEN Transformed(f, x[k].node)
                            ELSE x[k].node

IsTreeUpdate == lastCall'.op = "updateThreadNode"

\* C23: for a tree or list of trees in which the uri occurs nowhere,
\* updateThreadNode returns a structure equal to its input: the transform is
\* applied to no node, and a node without replies comes back as it went in.
C23_AbsentUriChangesNothing ==
    [][IsTreeUpdate =>
         /\ Occurrences(AsList(threadFocused), lastCall'.uri) = 0
               => threadFocused' = threadFocused
         /\ Occurrences(threadReplies, lastCall'.uri) = 0
               => threadReplies' = threadReplies]_vars

\* C23 witness: a list of three nodes, one of them nested, none with the uri,
\* went through updateThreadNode.
C23_Witness ==
    /\ lastCall.op = "updateThreadNode" /\ lastCall.uri = "c"
    /\ Len(threadReplies) = 2
    /\ threadReplies[1] # NULL /\ Len(threadReplies[1].replies) = 1
    /\ Occurrences(threadReplies, "c") = 0

\* C24: for a tree or list of trees that holds the uri exactly once,
\* updateThreadNode puts the transformed node in the place of the node at the
\* uri and changes nothing else: every other node keeps content, depth and
\* position, the replies of the replaced node included.
C24_OnlyTargetNodeChanges ==
    [][IsTreeUpdate =>
         /\ Occurrences(AsList(threadFocused), lastCall'.uri) = 1
               => /\ threadFocused' # NULL
                  /\ OnlyNodeAtChanged(AsList(threadFocused), AsList(threadFocused'),
                                       lastCall'.uri, lastCall'.arg)
         /\ Occurrences(threadReplies, lastCall'.uri) = 1
               => OnlyNodeAtChanged(threadReplies, threadReplies',
                                    lastCall'.uri, lastCall'.arg)]_vars

\* C24 witness: the node at the uri was two levels down and is the only one
\* that carries the optimistic like.
C24_Witness ==
    /\ lastCall.op = "updateThreadNode" /\ lastCall.uri = "c"
    /\ lastCall.arg.fn = "performUpdate"
    /\ threadFocused # NULL /\ threadFocused.post.uri = "a"
    /\ threadFocused.post.viewer.like = Undefined
    /\ Len(threadFocused.replies) = 1
    /\ threadFocused.replies[1] # NULL
    /\ threadFocused.replies[1].post.uri = "b"
    /\ threadFocused.replies[1].post.viewer.like = Undefined
    /\ Len(threadFocused.replies[1].replies) = 1
    /\ threadFocused.replies[1].replies[1] # NULL
    /\ threadFocused.replies[1].replies[1].post.uri = "c"
    /\ threadFocused.replies[1].replies[1].post.viewer.like = Pending

\* ----------------------------------------------- claims on NormalizeSpec
\* C25: normalizePost is idempotent: for a raw node with a uri (wrapper with or
\* without repost reason or reply parent, bare post, thread node), normalizing
\* the PostView again gives the same PostView.
C25_NormalizeIdempotent ==
    (lastCall.op = "normalizePost" /\ lastCall.arg.result \notin {NULL, Thrown})
       => ToString(lastCall.arg.again) = ToString(lastCall.arg.result)

\* C26: normalizePost never throws: for every input, a null and a post with a
\* malformed embed included, it returns a PostView or null.
C26_NormalizeTotal ==
    lastCall.op = "normalizePost" => lastCall.arg.result # Thrown

\* -------------------------------------------- overlapping toggles (Spec)
\* C27: toggles of one kind on one post are not serialized, and the response
\* that lands last wins: right after a handler has finished on a successful
\* response, the target shows the value that handler wrote -- the record
\* reference of its create, or none after its delete -- whatever an
\* overlapping toggle wrote before it.
C27_LastResponseWins ==
    (\/ lastCall.op \in {"deleteOk", "likersOk"}
     \/ lastCall.op = "createOk" /\ lastCall.kind = "repost")
    => LET target == TargetIn(lastCall.props.mode, lastCall.uri)
       IN target # NULL =>
            target.post.viewer[lastCall.kind] =
               (IF lastCall.op = "deleteOk" THEN Undefined ELSE lastCall.arg)

\* C27 witness: two likes of the same post are in flight together (the second
\* found 'pending' and created a second record); the handler holding the second
\* record has finished and the post shows that record, while the handler
\* holding the first record is still waiting for its likers.
C27_Witness ==
    /\ lastCall.op = "likersOk" /\ lastCall.arg = Ref(2)
    /\ Len(toggles) = 1
    /\ toggles[1].kind = "like" /\ toggles[1].uri = lastCall.uri
    /\ toggles[1].stage = "likers" /\ toggles[1].res = Ref(1)
    /\ LET target == TargetIn(lastCall.props.mode, lastCall.uri)
       IN target # NULL /\ target.post.viewer.like = Ref(2)

\* ----------------------------------------- overlapping fetches (OverlapSpec)
\* A feed (a thread) response arrives while another feed (thread) request is
\* in flight, whichever of them was issued first.
FeedArrivesAmongOthers == lastCall'.op = "feedOk" /\ Len(feedReqs) >= 2
ThreadArrivesAmongOthers == lastCall'.op = "threadOk" /\ Len(threadReqs) >= 2
\* The uris of the page the service answers the request with.
ResponseUris(req) ==
    LET pages == SourcePages(req)
        i == PageIndex(pages, req.cursor)
    IN IF i = 0 THEN <<>> ELSE pages[i]
\* The three buckets are those of the thread of `uri` as the service holds it:
\* its root, its parent chain, and its replies one for one (a reply that was not
\* found is kept under its own uri).
BucketsAreThreadOf(uri) ==
    LET root == GetPostThread(srv, uri)
    IN /\ threadFocused' # NULL /\ threadFocused'.post.uri = uri
       /\ UrisOf(threadAncestors') = ExpectedAncestors(uri)
       /\ [k \in DOMAIN threadReplies' |-> threadReplies'[k].post.uri]
            = [k \in DOMAIN root.replies |->
                 IF root.replies[k].post # NULL THEN root.replies[k].post.uri
                 ELSE root.replies[k].uri]
\* No request is ever withdrawn: a request leaves only when it is answered or
\* rejected, one at a time, the others staying in flight.
NeverCancelled ==
    /\ Len(feedReqs') < Len(feedReqs)
         => /\ lastCall'.op \in {"feedOk", "feedFail", "resolveFail"}
            /\ Len(feedReqs') = Len(feedReqs) - 1
    /\ Len(threadReqs') < Len(threadReqs)
         => /\ lastCall'.op \in {"threadOk", "threadFail"}
            /\ Len(threadReqs') = Len(threadReqs) - 1

\* C28: overlapping fetches are not cancelled, and each response overwrites the
\* state on arrival: whenever a feed response arrives while another feed
\* request is in flight, posts is then the page of that response, and whenever
\* a thread response arrives while another thread request is in flight, the
\* buckets are then those of that response.
C28_LastArrivalOverwrites ==
    [][/\ NeverCancelled
       /\ FeedArrivesAmongOthers => UrisOf(posts') = ResponseUris(lastCall'.arg)
       /\ ThreadArrivesAmongOthers => BucketsAreThreadOf(lastCall'.arg.uri)]_vars

\* C28 as amended: overlapping fetches are not cancelled and each response is
\* applied on arrival, whichever request was issued last: a thread response and
\* a first-page feed response overwrite the buckets / posts, which are then
\* those of the response that arrived last; a load-more response is appended
\* to the posts present when it arrives.
C28_AppliedOnArrival ==
    [][/\ NeverCancelled
       /\ FeedArrivesAmongOthers =>
            LET req == lastCall'.arg
            IN /\ UrisOf(posts') = IF req.loadMore
                                   THEN UrisOf(posts) \o ResponseUris(req)
                                   ELSE ResponseUris(req)
               /\ cursorRef' = ReturnedCursor
       /\ ThreadArrivesAmongOthers => BucketsAreThreadOf(lastCall'.arg.uri)]_vars

\* C28 witness: loadMore was called before the trigger's timeout fired, so its
\* request (for the first page, without cursor) was issued before the
\* trigger's request; the trigger's response arrived first and the load-more
\* response last, and posts holds the first page twice.
C28_Witness ==
    /\ lastCall.op = "feedOk" /\ lastCall.arg.loadMore
    /\ lastCall.arg.cursor = Undefined
    /\ feedReqs = <<>> /\ ~loading
    /\ UrisOf(posts) = ResponseUris(lastCall.arg) \o ResponseUris(lastCall.arg)
    /\ posts # <<>>

\* The same for threads: the thread asked for first arrived after the thread
\* asked for second; the props name the second thread, the buckets hold the
\* first.
C28_ThreadArrivedLast ==
    /\ props.mode = ThreadMode /\ props.threadUri = DeepThreadUri
    /\ lastCall.op = "threadOk" /\ lastCall.arg.uri = ThreadRootUri
    /\ threadReqs = <<>> /\ threadError = NoError
    /\ threadFocused # NULL /\ threadFocused.post.uri = ThreadRootUri
    /\ UrisOf(threadAncestors) = <<"p">>

\* --------------------------------------------------- claims on EmbedSpec
Given(v) == v # Undefined /\ v # ""

\* C29: createEmbed returns an images embed for images alone, a record embed
\* for a quote alone (uri and cid both given), a recordWithMedia embed holding
\* both when both are there, and undefined when neither is; a quote of which
\* only the uri or only the cid is given counts as no quote.
C29_CreateEmbed ==
    lastCall.op = "createEmbed" =>
      LET in == lastCall.arg.input
          r == lastCall.arg.result
          hasImages == Len(in.uploadedImages) > 0
          hasQuote == Given(in.quoteUri) /\ Given(in.quoteCid)
          IsImages(e) ==
            /\ e # NoEmbed
            /\ e.type = "app.bsky.embed.images"
            /\ Len(e.images) = Len(in.uploadedImages)
            /\ \A k \in DOMAIN e.images : e.images[k].image = in.uploadedImages[k].blob
          IsQuote(e) ==
            e = [type |-> "app.bsky.embed.record",
                 record |-> [uri |-> in.quoteUri, cid |-> in.quoteCid]]
      IN /\ (hasImages /\ ~hasQuote) => IsImages(r)
         /\ (~hasImages /\ hasQuote) => IsQuote(r)
         /\ (hasImages /\ hasQuote) =>
               /\ r # NoEmbed
               /\ r.type = "app.bsky.embed.recordWithMedia"
               /\ IsImages(r.media)
               /\ IsQuote(r.record)
         /\ (~hasImages /\ ~hasQuote) => r = NoEmbed

\* C29 witness: two images and a full quote gave a recordWithMedia embed.
C29_Witness ==
    /\ lastCall.op = "createEmbed"
    /\ Len(lastCall.arg.input.uploadedImages) = 2
    /\ Given(lastCall.arg.input.quoteUri) /\ Given(lastCall.arg.input.quoteCid)
    /\ lastCall.arg.result.type = "app.bsky.embed.recordWithMedia"

\* ---------------------------------------------- claims on ThreadLiveSpec
\* C30: every fetchThread call made with a threadUri ends with threadLoading
\* false, whether the request is answered with a thread, answered without a
\* post, or rejected: each settling clears the flag, and once nothing is in
\* flight the flag is down. A fetchThread call without a threadUri (after a
\* sign-in or a props change in thread mode) changes nothing of the thread
\* state.
C30_ThreadLoadingClears ==
    /\ (threadReqs # <<>>) ~> (threadReqs = <<>> /\ ~threadLoading)
    /\ [][lastCall'.op \in {"threadOk", "threadFail"} => ~threadLoading']_vars
    /\ [][((agent' # agent \/ props' # props) /\ ~Truthy(props'.threadUri))
            => UNCHANGED <<threadLoading, threadError, threadAncestors,
                           threadFocused, threadReplies, threadReqs>>]_vars

\* C30 witness: the request of a thread whose root has no post was answered;
\* nothing is in flight and the flag is down.
C30_Witness ==
    /\ lastCall.op = "threadOk" /\ lastCall.arg.uri = GoneThreadUri
    /\ threadError = PostNotFound
    /\ threadReqs = <<>> /\ ~threadLoading

\* ------------------------------- the list arm and the thread arm compared
\* A step of likePost / repostPost that hands a transform to the state update
\* of a list mode: the optimistic one at the call, or the commit one when the
\* delete, the repost or the getLikes is answered.
ListArmStep ==
    /\ mounted
    /\ lastCall'.props.mode # ThreadMode
    /\ \/ IsToggleStartStep
       \/ /\ lastCall'.op \in {"deleteOk", "likersOk", "createOk", "crash"}
          /\ lastCall'.stage \in {"delete", "likers", "create"}
          /\ Len(toggles') = Len(toggles) - 1
\* The toggle whose call was answered in this step.
SettledToggle == toggles[CHOOSE i \in DOMAIN toggles : toggles' = Without(toggles, i)]
\* The transform the step hands over.
StepTransform ==
    IF IsToggleStartStep
    THEN [NoFn EXCEPT !.fn = "performUpdate", !.kind = NewToggle.kind,
                      !.isAlready = NewToggle.isAlready]
    ELSE LET t == SettledToggle IN
         IF t.stage = "delete"
         THEN [NoFn EXCEPT !.fn = IF t.kind = "like" THEN "removeSelf" ELSE "clearRepost",
                           !.kind = t.kind, !.did = t.did]
         ELSE IF t.stage = "likers"
         THEN [NoFn EXCEPT !.fn = "finalUpdate", !.kind = t.kind, !.ref = t.res,
                           !.likers = GetLikes(srv, t.uri)]
         ELSE [NoFn EXCEPT !.fn = "finalizeRepost", !.kind = t.kind, !.ref = Ref(nextRef)]

\* C31: the transforms act identically on the flat list and on the thread tree:
\* whenever likePost / repostPost update the list, the target as the list holds
\* it afterwards has the counts, viewer state and likers that updateThreadNode
\* gives the target when the same items sit in a thread bucket and get the
\* same transform; the target is in the one exactly when it is in the other.
C31_ListAndTreeAgree ==
    [][ListArmStep =>
         LET u == lastCall'.uri
             inTree == checkNodes(updateThreadNodes(posts, u, StepTransform), u)
             inList == LocateIn(lastCall'.props.mode, NULL, <<>>, <<>>, posts', u)
         IN /\ (inTree = NULL) <=> (inList = NULL)
            /\ inTree # NULL =>
                  /\ inTree.post = inList.post
                  /\ inTree.likers = inList.likers]_vars

\* The nodes of the result stand where the nodes of the input stood, at the
\* same depth and under the same uri, and a node whose uri is not u is as it was.
FrameKept(before, after, u) ==
    LET x == Flat(before, 0)
        y == Flat(after, 0)
    IN /\ Len(y) = Len(x)
       /\ \A k \in DOMAIN x :
            /\ y[k].depth = x[k].depth
            /\ (y[k].node = NULL) <=> (x[k].node = NULL)
            /\ x[k].node # NULL =>
                  /\ y[k].node.post.uri = x[k].node.post.uri
                  /\ x[k].node.post.uri # u => y[k].node = x[k].node

\* The steps of likePost, repostPost and fetchPostLikes, the catch of the
\* toggles aside (it refetches): the call, and every answer of their awaited
\* calls.
HandlerOps ==
    {"start", "throw", "crash", "createOk", "deleteOk", "likersOk",
     "fetchPostLikes", "likesOk"}

\* C35: likePost, repostPost and fetchPostLikes on uri u change no post whose
\* uri differs from u, in the flat list or in any of the three thread buckets,
\* and keep the order of the list and the shape of the trees: this holds of
\* every step of theirs short of the revert refetch.
C35_OtherPostsUntouched ==
    [][lastCall'.op \in HandlerOps =>
         /\ FrameKept(posts, posts', lastCall'.uri)
         /\ FrameKept(AsList(threadFocused), AsList(threadFocused'), lastCall'.uri)
         /\ FrameKept(threadAncestors, threadAncestors', lastCall'.uri)
         /\ FrameKept(threadReplies, threadReplies', lastCall'.uri)]_vars

\* C35 witness: two pages are shown and the like of the post of the second page
\* was committed with its likers; the post of the first page is as the service
\* gave it.
C35_Witness ==
    /\ lastCall.op = "likersOk" /\ lastCall.uri = "c"
    /\ props.mode = FlatMode
    /\ UrisOf(posts) = <<"a", "c">>
    /\ posts[2].post.viewer.like = lastCall.arg /\ posts[2].likers # <<>>
    /\ posts[1] = normalizePost(FeedViewPost(srv, "a"))

\* --------------------------------------------- further claims on Spec
\* C32: a toggle that passes its preconditions issues exactly one remote create
\* or delete call, chosen from the viewer state the active view held when
\* likePost / repostPost was called: a create with the uri and cid of the target
\* when viewer.<kind> was absent, a delete with exactly the stored reference
\* when a reference was stored, and never a delete without one. The service
\* changes only when such a call is answered, once per call. The preconditions:
\* a session, and a cid that is passed or read from the target (likePost reads
\* it when none is passed, repostPost also when an empty one is).
C32_OneCallFromViewerState ==
    [][/\ (/\ lastCall'.op = "start" /\ agent
           /\ \/ Truthy(lastCall'.arg)
              \/ /\ TargetIn(props.mode, lastCall'.uri) # NULL
                 /\ (lastCall'.arg = Undefined \/ lastCall'.kind = "repost"))
            => IsToggleStartStep
       /\ Len(toggles') > Len(toggles)
            => /\ IsToggleStartStep
               /\ lastCall'.op = "start"
               /\ toggles = SubSeq(toggles', 1, Len(toggles))
       /\ IsToggleStartStep
            => LET t == NewToggle
                   found == TargetIn(props.mode, t.uri)
                   existing == IF found = NULL THEN Undefined
                               ELSE found.post.viewer[t.kind]
               IN /\ t.uri = lastCall'.uri /\ t.kind = lastCall'.kind
                  /\ t.stage \in {"create", "delete"}
                  /\ existing = Undefined
                       => t.stage = "create" /\ t.cid = CidOf(t.uri)
                  /\ IsRef(existing)
                       => t.stage = "delete" /\ t.existing = existing
                  /\ t.stage = "delete" => IsRef(existing)
       /\ srv' # srv
            => \E i \in DOMAIN toggles :
                  LET t == toggles[i] IN
                  /\ lastCall'.kind = t.kind /\ lastCall'.uri = t.uri
                  /\ \/ /\ t.stage = "create" /\ lastCall'.op = "createOk"
                        /\ srv' = SrvCreate(srv, t.kind, t.uri, lastCall'.arg)
                     \/ /\ t.stage = "delete" /\ lastCall'.op = "deleteOk"
                        /\ lastCall'.arg = t.existing
                        /\ srv' = SrvDelete(srv, t.kind, t.uri, t.existing)
                  /\ \/ toggles' = Without(toggles, i)
                     \/ toggles' = [toggles EXCEPT ![i].stage = "likers",
                                                   ![i].res = lastCall'.arg]]_vars

\* C32 witness: a like was created on the service and the view shows its
\* reference; the next likePost on the same post has a delete in flight that
\* carries that reference.
C32_Witness ==
    /\ Len(toggles) = 1
    /\ toggles[1].kind = "like" /\ toggles[1].stage = "delete"
    /\ toggles[1].existing = Ref(1)
    /\ srv[toggles[1].uri].like = Ref(1)
    /\ lastCall.op = "start"

\* ------------------------------------------- further claims on FeedSpec
\* The steps in which `await fetchFeedImpl` rejects: a remote call of the fetch
\* is rejected, or fetchFeedImpl throws at once on the null agent.
FeedFetchFailed ==
    \/ lastCall'.op = "feedFail"
    \/ IsTimerFire /\ FirstCall(timer.props, timer.agent).do = "throw"
    \/ /\ lastCall'.op = "loadMore" /\ lastCall'.arg = "fetch"
       /\ FirstCall(props, agent).do = "throw"

\* C33: a failed feed fetch, initial or loadMore, leaves error a non-null
\* string (the message of the rejection, or the fallback when it has none) and
\* loading false, and leaves posts, the stored cursor and hasMore as they
\* were. (Once the tree is unmounted there is no error or loading state to
\* set; posts, cursor and hasMore are left as they were all the same.)
C33_FailedFetchKeepsPage ==
    [][FeedFetchFailed =>
         /\ mounted => /\ error' \notin {NoError, Undefined}
                       /\ ~loading'
         /\ (mounted /\ lastCall'.op = "feedFail" /\ error' # "Error fetching feed")
               => error' \in Rejections
         /\ posts' = posts /\ cursorRef' = cursorRef /\ hasMore' = hasMore]_vars

\* C33 witness: the first page is shown with its cursor, and the loadMore
\* request that carried the cursor was rejected with a message, which is the
\* error shown.
C33_Witness ==
    /\ lastCall.op = "feedFail" /\ lastCall.arg.loadMore
    /\ lastCall.arg.cursor = cursorRef /\ cursorRef # Undefined
    /\ posts # <<>> /\ hasMore /\ ~loading
    /\ error = "boom"

\* ---------------------------------------------------- claims on SearchSpec
\* C34: a search fetch returns one item per raw result that has a uri, in
\* server order, each holding that result as its post, with repostedBy null
\* and parent null.
C34_SearchItems ==
    lastCall.op = "fetchFeedImpl" =>
       LET found == lastCall.arg.input.posts
           out == lastCall.arg.result.posts
           withUri == SeqFilter(found, [i \in DOMAIN found |->
                                           Truthy(GetOr(found[i], "uri", Undefined))])
       IN /\ Len(out) = Len(withUri)
          /\ \A k \in DOMAIN out :
               /\ out[k] # NULL
               /\ k \in DOMAIN withUri => out[k].post = withUri[k]
               /\ out[k].repostedBy = NULL
               /\ out[k].parent = NULL

\* ----------------------------------------------- claims on OverlapLiveSpec
\* The trigger effect has just run for the props q with a session: the props
\* changed to q, or the session arrived under q.
JustChanged(q) ==
    /\ lastCall.op \in {"setProps", "signIn"} /\ lastCall.props = q
    /\ props = q /\ agent
\* A fetch is issued with the values of q: fetchFeed is called with them, or
\* (thread mode) the request of fetchThread for q.threadUri is under way.
IssuedFor(q) ==
    IF q.mode = ThreadMode
    THEN /\ JustChanged(q)
         /\ threadReqs # <<>> /\ threadReqs[Len(threadReqs)].uri = q.threadUri
    ELSE lastCall.op = "fetchFeed" /\ lastCall.props = q

\* C36: every change of mode, actor, feedUrl, searchQuery or threadUri is, unless
\* the props change again first, followed in the end by a fetch issued with the
\* new values, also when the change comes while a feed fetch is in flight.
C36_ChangeIsFetched ==
    \A q \in OverlapPropSet : JustChanged(q) ~> (props # q \/ IssuedFor(q))

\* ------------------------------------------------ claims on overlapping fetches
\* The feed page request `req` is the one fetchFeedImpl issues for the props q:
\* the same remote call with the same actor, query or (resolved) feed.
RequestFor(req, q) ==
    LET first == FirstCall(q, TRUE)
    IN /\ first.do = "call"
       /\ IF first.call = "resolveHandle"
          THEN /\ req.call = "getFeed"
               /\ req.key = GeneratorUri(ResolveHandle(first.key), first.feedId)
          ELSE req.call = first.call /\ req.key = first.key

\* C37: the stored cursor, when defined, was returned for the current mode,
\* actor, feedUrl and searchQuery: when a feed fetch completes and leaves a
\* cursor stored, the fetch was one for the current parameters, so that a fetch
\* for the old parameters completing after a change leaves the cursor undefined
\* and loadMore cannot send it.
C37_CursorOfCurrentParams ==
    lastCall.op = "feedOk" /\ Truthy(cursorRef) => RequestFor(lastCall.arg, props)

\* C38: a loadMore invoked while a feed fetch is in flight issues no remote
\* request and changes no state, so that loadMore never adds a page request to
\* one in flight.
C38_LoadMoreWaits ==
    [][lastCall'.op = "loadMore" /\ feedReqs # <<>> =>
          /\ feedReqs' = feedReqs /\ threadReqs' = threadReqs
          /\ view' = view]_vars

\* C39: loading is true exactly while at least one feed fetch started by
\* fetchFeed is in flight: never false while a feed request is pending, and
\* false once all of them have completed.
C39_LoadingIffInFlight == loading <=> feedReqs # <<>>

\* C40: in flat mode the refetch after a failed like / repost is a first-page
\* fetch without cursor, and when a first-page fetch completes posts is that
\* page alone (pages accumulated through loadMore are gone) and the stored
\* cursor and hasMore are those of that page. (A like that fails after the
\* tree was unmounted still issues the same request; its response then has
\* only the cursor ref to write.)
C40_RevertIsFirstPage ==
    [][/\ (lastCall'.op = "fail" /\ lastCall'.props.mode # ThreadMode) =>
             LET first == FirstCall(lastCall'.props, TRUE)
             IN first.do = "call" =>
                  /\ feedReqs' = Append(feedReqs,
                        [loadMore |-> FALSE, cursor |-> Undefined,
                         limit |-> lastCall'.props.limit,
                         call |-> first.call, key |-> first.key,
                         feedId |-> first.feedId])
                  /\ posts' = posts /\ cursorRef' = cursorRef /\ hasMore' = hasMore
       /\ (lastCall'.op = "feedOk" /\ ~lastCall'.arg.loadMore) =>
             LET page == Upstream(srv, [lastCall'.arg EXCEPT !.cursor = Undefined])
             IN /\ lastCall'.arg.cursor = Undefined
                /\ cursorRef' = page.cursor
                /\ IF mounted
                   THEN /\ posts' = [k \in DOMAIN page.feed |-> normalizePost(page.feed[k])]
                        /\ hasMore' = (page.cursor # Undefined)
                   ELSE UNCHANGED <<posts, hasMore>>]_vars

\* C40 witness: two pages are shown, accumulated through loadMore, and the like
\* or repost of a post of the second page has just failed: its refetch, a
\* first-page request without cursor, is in flight.
C40_Witness ==
    /\ lastCall.op = "fail" /\ props.mode = "timeline"
    /\ Len(posts) = 2 /\ posts[2] # NULL /\ posts[2].post.uri = lastCall.uri
    /\ feedReqs = <<[loadMore |-> FALSE, cursor |-> Undefined, limit |-> DefaultLimit,
                     call |-> "getTimeline", key |-> Undefined, feedId |-> Undefined]>>

=========================================================================
